---------------------------- MODULE Spec2Model ----------------------------
(***************************************************************************)
(* State-machine model of cicd-agent: the callback handler and its task   *)
(* registry, the single / double (blue-green) / web deployment pipelines, *)
(* the version ledger (.current), the readiness prober, the traffic       *)
(* switcher and the old-version reclaimer.                                 *)
(***************************************************************************)
EXTENDS Integers, Sequences, FiniteSets, TLC

(* ------------------------------ bounds --------------------------------- *)
\* number of readiness polls of Phase A before the 3 minute deadline passes
MaxPollsA == 4
\* number of health rounds of Phase B before the 1 minute deadline passes
MaxPollsB == 2
\* number of waitForResourcesDeletion polls before its 3 minute deadline
MaxPollsDel == 1

(* ------------------------------ universe ------------------------------- *)
Tasks == {"t1", "t2"}
TaskIds == {"a", "b"}
\* req.Type of a callback; "" is a callback that names no type
Types == {"single", "double", "web", ""}
Colours == {"v1", "v2"}
Endpoints == {"e1", "e2"}
None == "none"

VARIABLES
    pending,     \* callbacks the CI system has still to deliver
    pc,          \* pc[t]: position of task t's worker goroutine, <<step, phase>>
    ttype,       \* ttype[t]: req.Type of the accepted callback
    taskID,      \* taskID[t]: req.TaskID
    cancelled,   \* cancelled[t]: ctx.Done() of the task's context is closed
    err,         \* err[t]: error value the running step hands to the pipeline
    log,         \* log[t]: what the worker did, in order (notifications, executors, effects)
    taskCtxMap,  \* the task registry: task id -> task owning the cancel func, or None
    cancelResp,  \* <<id, HTTP code>> of the last answer of /api/task/cancel, or NoAnswer
    ledger,      \* current_version of the project's .current file, or "absent"
    ledger0,     \* the ledger when the callback was accepted
    config,      \* deployment configuration (double project?, proxy mode?, proxy urls)
    loc,         \* loc[t]: locals of the pipeline (resolved paths, namespaces, prober counters)
    replicas,    \* replicas[ns][c]: replica count of controller c in colour ns's namespace
    serving,     \* serving[e]: colour proxy endpoint e routes to
    nginxConf,   \* nginxConf[f]: colour whose gateway address file f holds on disk
    nginxLive,   \* colour the running nginx routes to (its loaded configuration)
    nginxDenied, \* .conf files os.ReadFile fails on
    fan,         \* the fan-out executor under study: its workers, semaphore and errChan
    led,         \* the ledger callers under study: .current files, stepStartTimes, goroutines
    twin,        \* the notification study: two copies of one pipeline and their context
    wfs,         \* the web rollout study: directories on disk and the orchestrator
    tlog,        \* the task logger study: one step log file and the goroutines writing to it
    yaml         \* the manifest rewrite study: a deployment directory and the passes over it

taskVars == <<pc, ttype, taskID, cancelled, err, log, loc>>
envVars == <<ledger, ledger0, config, replicas, serving, nginxConf, nginxLive, nginxDenied>>
pipelineVars == <<pending, taskCtxMap, cancelResp, pc, ttype, taskID, cancelled, err, log, loc,
                  ledger, ledger0, config, replicas, serving, nginxConf, nginxLive, nginxDenied>>
sideVars == <<fan, led, twin, wfs, tlog, yaml>>
vars == <<pipelineVars, sideVars>>

(* ------------------------------ events --------------------------------- *)
EvStep(n, st) == <<"step", n, st>>
EvTask(st) == <<"task", 0, st>>
EvCard(st) == <<"card", 0, st>>
EvExec(n) == <<"exec", n, "start">>
EvDo(n, what) == <<"do", n, what>>
EvCancel(p) == <<"cancel", p[1], p[2]>>

\* no call of /api/task/cancel has been answered yet
NoAnswer == <<None, 0>>

Idle == <<0, "idle">>
Spawned == <<0, "spawned">>
Ignored == <<0, "ignored">>
Returned == <<0, "returned">>
Done == <<0, "done">>

(* --------------------------- version ledger ---------------------------- *)
\* createDefaultVersionFile: a missing .current is written with current_version v1
createDefaultVersionFile(l) ==
    IF l = "absent" THEN "v1" ELSE l

\* GetCurrentVersion: the ledger file after the read (created when missing)
GetCurrentVersion(l) ==
    createDefaultVersionFile(l)

\* GetVersion: the current_version the read returns
GetVersion(l) ==
    GetCurrentVersion(l)

\* HasVersionStructure / IsDoubleProject: the project is configured blue/green
HasVersionStructure ==
    config.double

\* common.GetDeploymentPath: deployment directory of the next rollout
GetDeploymentPath(l) ==
    IF ~HasVersionStructure THEN "deployment"
    ELSE LET version == GetVersion(l)
         IN  IF version = "v1" THEN "deployment-v2"
             ELSE IF version = "v2" THEN "deployment-v1"
             ELSE "deployment-v1"

\* strings.Contains(path, "-v1") / "-v2" on the names the resolvers build
ContainsColour(name, c) ==
    name \in {"deployment-" \o c, "service-" \o c}

\* javaBuild.getNamespace(project, mode)
getNamespace(l, mode) ==
    IF ~HasVersionStructure THEN "service"
    ELSE IF mode = "now" THEN "service-" \o GetVersion(l)
    ELSE IF mode = "next" THEN
         LET nowNamespace == "service-" \o GetVersion(l)
         IN  IF ContainsColour(nowNamespace, "v1") THEN "service-v2"
             ELSE IF ContainsColour(nowNamespace, "v2") THEN "service-v1"
             ELSE "service-v1"
    ELSE "service"

\* javaBuild.getDeploymentPath(project, mode)
getDeploymentPath(l, mode) ==
    IF ~HasVersionStructure THEN "deployment"
    ELSE IF mode = "now" THEN "deployment-" \o GetVersion(l)
    ELSE IF mode = "next" THEN
         LET nowPath == "deployment-" \o GetVersion(l)
         IN  IF ContainsColour(nowPath, "v1") THEN "deployment-v2"
             ELSE IF ContainsColour(nowPath, "v2") THEN "deployment-v1"
             ELSE "deployment-v1"
    ELSE "deployment"

\* colour a resolved namespace or deployment path belongs to (None outside blue/green)
ColourOf(name) ==
    IF ContainsColour(name, "v1") THEN "v1"
    ELSE IF ContainsColour(name, "v2") THEN "v2"
    ELSE None

\* the version step 15 derives from the namespace it switches to
VersionOfNamespace(namespace) ==
    IF ContainsColour(namespace, "v1") THEN "v1"
    ELSE IF ContainsColour(namespace, "v2") THEN "v2"
    ELSE "v1"

Opposite(c) ==
    IF c = "v1" THEN "v2" ELSE "v1"

(* ------------------------------ Init ----------------------------------- *)
Controllers == {"Deployment", "StatefulSet", "ReplicaSet"}
NginxFiles == {"f1", "f2"}
Pods == {"p1", "p2"}
Phases == {"Pending", "ContainerCreating", "Running", "Failed"}

Configs ==
    { c \in [double : BOOLEAN, proxy : BOOLEAN, urls : SUBSET Endpoints] :
        /\ (~c.double \/ ~c.proxy) => c.urls = {}
        /\ c.urls \in {{}, {"e1"}, Endpoints} }

\* no fan-out executor is under study
NoFan ==
    [kind |-> None, n |-> 0, waiting |-> 0, running |-> 0, ok |-> 0,
     first |-> None, errs |-> {}, missing |-> FALSE, ctxDone |-> FALSE,
     unprocessed |-> 0, ret |-> None]

\* no ledger caller is under study
NoLed ==
    [file |-> << >>, stepStartTimes |-> << >>, accessing |-> {}, fatal |-> FALSE,
     now |-> 0, call |-> << >>]

\* no notification study is set up
NoTwin ==
    [cancelled |-> FALSE, copy |-> << >>]

\* no web rollout study is set up
NoWeb ==
    [pc |-> None]

\* no task logger study is set up
NoLog ==
    [file |-> << >>, opened |-> FALSE, call |-> << >>]

\* no manifest rewrite study is set up
NoYaml ==
    [pass |-> 0]

InitLoc ==
    [deployDir |-> None, namespace |-> None, version |-> None,
     oldNamespace |-> None, consecutiveSuccess |-> 0, polls |-> 0, lastPolls |-> << >>,
     completedPods |-> {}, answers |-> [e \in Endpoints |-> 0]]

Init ==
    /\ pending = {"t1"}
    /\ pc = [t \in Tasks |-> Idle]
    /\ ttype = [t \in Tasks |-> None]
    /\ taskID = [t \in Tasks |-> None]
    /\ cancelled = [t \in Tasks |-> FALSE]
    /\ err = [t \in Tasks |-> "nil"]
    /\ log = [t \in Tasks |-> << >>]
    /\ loc = [t \in Tasks |-> InitLoc]
    /\ taskCtxMap = [i \in TaskIds |-> None]
    /\ cancelResp = NoAnswer
    /\ ledger \in {"absent", "v1", "v2"}
    /\ ledger0 = ledger
    /\ config \in Configs
    /\ replicas = [c \in Colours |-> [k \in Controllers |->
                      IF c = GetVersion(ledger) THEN 1 ELSE 0]]
    /\ serving = [e \in Endpoints |-> GetVersion(ledger)]
    /\ nginxConf \in [NginxFiles -> {GetVersion(ledger), None}]
    /\ (config.proxy \/ ~config.double) => nginxConf = [f \in NginxFiles |-> GetVersion(ledger)]
    /\ nginxLive = GetVersion(ledger)
    /\ nginxDenied \in SUBSET NginxFiles
    /\ (config.proxy \/ ~config.double) => nginxDenied = {}
    /\ fan = NoFan
    /\ led = NoLed
    /\ twin = NoTwin
    /\ wfs = NoWeb
    /\ tlog = NoLog
    /\ yaml = NoYaml

(* ----------------------------- dispatch -------------------------------- *)
\* the worker's choice of pipeline: web, double, and single for anything else
Dispatch(ty) ==
    IF ty = "web" THEN "web"
    ELSE IF ty = "double" THEN "double"
    ELSE "single"

(* --------------------------- task registry ----------------------------- *)
\* CreateTaskContext: taskCtxMap[taskID] = cancel (an existing entry is replaced)
CreateTaskContext(t) ==
    /\ pc[t] = Spawned
    /\ taskCtxMap' = [taskCtxMap EXCEPT ![taskID[t]] = t]
    /\ pc' = [pc EXCEPT ![t] = IF ttype[t] = "web" THEN <<7, "begin">> ELSE <<9, "begin">>]
    /\ UNCHANGED <<pending, cancelResp, ttype, taskID, cancelled, err, log, loc, sideVars>>
    /\ UNCHANGED envVars

\* a registry whose cancel fires the signal and leaves the entry in place
CancelTask_keepsEntry(id) ==
    /\ taskCtxMap[id] # None
    /\ cancelled' = [cancelled EXCEPT ![taskCtxMap[id]] = TRUE]
    /\ log' = [log EXCEPT ![taskCtxMap[id]] = Append(@, EvCancel(pc[taskCtxMap[id]]))]
    /\ UNCHANGED taskCtxMap

\* CancelTask returning true: fire and remove the cancel func registered under id
CancelTask(id) ==
    /\ taskCtxMap[id] # None
    /\ cancelled' = [cancelled EXCEPT ![taskCtxMap[id]] = TRUE]
    /\ log' = [log EXCEPT ![taskCtxMap[id]] = Append(@, EvCancel(pc[taskCtxMap[id]]))]
    /\ taskCtxMap' = [taskCtxMap EXCEPT ![id] = None]

\* a registry whose cleanup leaves the entry in place
CleanupTaskMap_keepsEntry(id) ==
    taskCtxMap

\* CleanupTask: remove the entry without firing it
CleanupTaskMap(id) ==
    [taskCtxMap EXCEPT ![id] = None]

(* --------------------------- HTTP handlers ----------------------------- *)
\* HandleCallback: a callback whose status is "success" spawns the worker
HandleCallback(t) ==
    /\ t \in pending
    /\ pc[t] = Idle
    /\ pending' = pending \ {t}
    /\ \E status \in {"success", "failed"}, ty \in Types, id \in TaskIds :
         /\ ttype' = [ttype EXCEPT ![t] = ty]
         /\ taskID' = [taskID EXCEPT ![t] = id]
         /\ pc' = [pc EXCEPT ![t] = IF status = "success" THEN Spawned ELSE Ignored]
    /\ UNCHANGED <<taskCtxMap, cancelResp, cancelled, err, log, loc, sideVars>>
    /\ UNCHANGED envVars

\* HandleCancel: 200 when CancelTask found the id, 404 otherwise (CancelTask
\* returned false and touched nothing)
HandleCancel(id) ==
    /\ \/ /\ CancelTask(id)
          /\ cancelResp' = <<id, 200>>
       \/ /\ taskCtxMap[id] = None
          /\ cancelResp' = <<id, 404>>
          /\ UNCHANGED <<taskCtxMap, cancelled, log>>
    /\ UNCHANGED <<pending, pc, ttype, taskID, err, loc, sideVars>>
    /\ UNCHANGED envVars

\* the worker's last statement: common.CleanupTask(taskID)
CleanupTask(t) ==
    /\ pc[t] = Returned
    /\ taskCtxMap' = CleanupTaskMap(taskID[t])
    /\ pc' = [pc EXCEPT ![t] = Done]
    /\ UNCHANGED <<pending, cancelResp, ttype, taskID, cancelled, err, log, loc, sideVars>>
    /\ UNCHANGED envVars

(* ------------------------- notifications ------------------------------- *)
\* sendFailureNotifications: task notification "failed" and the failed chat card
sendFailureNotifications ==
    <<EvTask("failed"), EvCard("failed")>>

\* sendCancelNotifications: task notification "cancel" and the cancel chat card
sendCancelNotifications ==
    <<EvTask("cancel"), EvCard("cancel")>>

\* SendStepNotification reads the last duration through GetCurrentVersion, which
\* creates a missing .current; the worker then moves to position p with error e
Advance(t, p, e, evs) ==
    /\ pc' = [pc EXCEPT ![t] = p]
    /\ err' = [err EXCEPT ![t] = e]
    /\ log' = [log EXCEPT ![t] = @ \o evs]
    /\ ledger' = GetCurrentVersion(ledger)

\* a move of the worker that sends no step notification
Goto(t, p, e, evs) ==
    /\ pc' = [pc EXCEPT ![t] = p]
    /\ err' = [err EXCEPT ![t] = e]
    /\ log' = [log EXCEPT ![t] = @ \o evs]

restOfTask == <<pending, taskCtxMap, cancelResp, ttype, taskID, cancelled, sideVars>>
cluster == <<replicas, serving, nginxConf, nginxLive, nginxDenied>>

(* ------------------ image steps 9..12 of both Java pipelines ----------- *)
\* start notification, image listing, cancel pre-check; precheck is what the
\* pre-check sends besides the step's cancel notification
JavaStepBegin(t, n, precheck) ==
    /\ pc[t] = <<n, "begin">>
    /\ \E listing \in {"ok", "fail"} :
         IF listing = "fail"
         THEN Advance(t, <<n, "ret">>, "err", <<EvStep(n, "start"), EvStep(n, "failed")>>)
         ELSE IF cancelled[t]
         THEN Advance(t, <<n, "ret">>, "ctx",
                      <<EvStep(n, "start"), EvStep(n, "cancel")>> \o precheck)
         ELSE Advance(t, <<n, "exec">>, "nil", <<EvStep(n, "start"), EvExec(n)>>)
    /\ UNCHANGED <<restOfTask, loc, ledger0, config, cluster>>

\* the executor returns; cancelBranch tells whether the step tests ctx.Err()
\* on an executor error
JavaStepExec(t, n, cancelBranch) ==
    /\ pc[t] = <<n, "exec">>
    /\ \E result \in {"ok", "fail"} :
         IF result = "ok"
         THEN Advance(t, <<n, "ret">>, "nil", <<EvStep(n, "success")>>)
         ELSE IF cancelBranch /\ cancelled[t]
         THEN Advance(t, <<n, "ret">>, "ctx",
                      <<EvStep(n, "cancel")>> \o sendCancelNotifications)
         ELSE Advance(t, <<n, "ret">>, "err", <<EvStep(n, "failed")>>)
    /\ UNCHANGED <<restOfTask, loc, ledger0, config, cluster>>

(* --------------------------- single pipeline --------------------------- *)
Single_step9PullOnline(t) ==
    /\ Dispatch(ttype[t]) = "single"
    /\ \/ JavaStepBegin(t, 9, sendCancelNotifications)
       \/ JavaStepExec(t, 9, TRUE)

Single_step10TagImages(t) ==
    /\ Dispatch(ttype[t]) = "single"
    /\ \/ JavaStepBegin(t, 10, sendCancelNotifications)
       \/ JavaStepExec(t, 10, TRUE)

Single_step11PushLocal(t) ==
    /\ Dispatch(ttype[t]) = "single"
    /\ \/ JavaStepBegin(t, 11, sendCancelNotifications)
       \/ JavaStepExec(t, 11, TRUE)

Single_step12CheckImage(t) ==
    /\ Dispatch(ttype[t]) = "single"
    /\ \/ JavaStepBegin(t, 12, sendCancelNotifications)
       \/ JavaStepExec(t, 12, FALSE)

\* step 13 start: resolve the deployment directory, then the cancel pre-check
DeployBegin(t, precheck) ==
    /\ pc[t] = <<13, "begin">>
    /\ \E resolved \in {"ok", "fail"} :
         IF resolved = "fail"
         THEN /\ Advance(t, <<13, "ret">>, "err", <<EvStep(13, "start"), EvStep(13, "failed")>>)
              /\ loc' = loc
         ELSE /\ loc' = [loc EXCEPT ![t].deployDir = GetDeploymentPath(ledger)]
              /\ IF cancelled[t]
                 THEN Advance(t, <<13, "ret">>, "ctx",
                              <<EvStep(13, "start"), EvStep(13, "cancel")>> \o precheck)
                 ELSE Advance(t, <<13, "exec">>, "nil", <<EvStep(13, "start"), EvExec(13)>>)
    /\ UNCHANGED <<restOfTask, ledger0, config, cluster>>

\* DeployServices applies the manifests of deployDir: the controllers of that
\* colour's namespace get their replicas; an error is always reported "failed"
DeployExec(t) ==
    /\ pc[t] = <<13, "exec">>
    /\ \E result \in {"ok", "fail"} :
         IF result = "ok"
         THEN /\ Advance(t, <<13, "ret">>, "nil",
                         <<EvDo(13, loc[t].deployDir), EvStep(13, "success")>>)
              /\ replicas' = IF ColourOf(loc[t].deployDir) \in Colours
                             THEN [replicas EXCEPT ![ColourOf(loc[t].deployDir)] =
                                      [k \in Controllers |-> 1]]
                             ELSE replicas
         ELSE /\ Advance(t, <<13, "ret">>, "err", <<EvStep(13, "failed")>>)
              /\ replicas' = replicas
    /\ UNCHANGED <<restOfTask, loc, ledger0, config, serving, nginxConf, nginxLive, nginxDenied>>

Single_step13DeployService(t) ==
    /\ Dispatch(ttype[t]) = "single"
    /\ \/ DeployBegin(t, sendCancelNotifications)
       \/ DeployExec(t)

\* a pipeline that runs its next step whatever the last one returned
afterStep_ignoresError(n, e, last) ==
    IF n < last THEN <<n + 1, "begin">> ELSE Returned

\* where a pipeline goes when step n returned e: it stops at the first error,
\* else runs the next step, and returns after the last one
afterStep(n, e, last) ==
    IF e # "nil" THEN Returned
    ELSE IF n < last THEN <<n + 1, "begin">>
    ELSE Returned

\* the step sequence of ProcessSingleVersionDeployment: what follows a step's return
ProcessSingleVersionDeployment(t) ==
    /\ Dispatch(ttype[t]) = "single"
    /\ \E n \in 9..13 :
         /\ pc[t] = <<n, "ret">>
         /\ IF err[t] # "nil"
            THEN IF cancelled[t]
                 THEN Goto(t, afterStep(n, err[t], 13), err[t], << >>)
                 ELSE Goto(t, afterStep(n, err[t], 13), err[t], sendFailureNotifications)
            ELSE IF n < 13
                 THEN Goto(t, afterStep(n, err[t], 13), "nil", << >>)
                 ELSE Goto(t, afterStep(n, err[t], 13), "nil",
                           <<EvTask("complete"), EvCard("complete")>>)
    /\ UNCHANGED <<restOfTask, loc>>
    /\ UNCHANGED envVars

(* --------------------------- double pipeline --------------------------- *)
\* the double pipeline's cancel pre-checks send the task notification only
DoublePrecheck ==
    <<EvTask("cancel")>>

Double_step9PullOnline(t) ==
    /\ ttype[t] = "double"
    /\ \/ JavaStepBegin(t, 9, DoublePrecheck)
       \/ JavaStepExec(t, 9, TRUE)

Double_step10TagImages(t) ==
    /\ ttype[t] = "double"
    /\ \/ JavaStepBegin(t, 10, DoublePrecheck)
       \/ JavaStepExec(t, 10, TRUE)

Double_step11PushLocal(t) ==
    /\ ttype[t] = "double"
    /\ \/ JavaStepBegin(t, 11, DoublePrecheck)
       \/ JavaStepExec(t, 11, TRUE)

Double_step12CheckImage(t) ==
    /\ ttype[t] = "double"
    /\ \/ JavaStepBegin(t, 12, DoublePrecheck)
       \/ JavaStepExec(t, 12, FALSE)

Double_step13DeployService(t) ==
    /\ ttype[t] = "double"
    /\ \/ DeployBegin(t, DoublePrecheck)
       \/ DeployExec(t)

(* ----------------------- step 14: readiness prober --------------------- *)
\* waitForAllPodsRunning: consecutive all-Running polls that end Phase A
requiredSuccess == 2

\* isPodNormalState: only Pending, ContainerCreating and Running are normal
isPodNormalState(status) ==
    status \in {"Pending", "ContainerCreating", "Running"}

\* what one "kubectl get pods" can report: each listed pod with its phase
PodStates ==
    UNION { [S -> Phases] : S \in SUBSET Pods }

\* step14CheckServiceReady up to the call of CheckServicesReady
step14CheckServiceReady(t) ==
    /\ ttype[t] = "double"
    /\ pc[t] = <<14, "begin">>
    /\ IF ~HasVersionStructure
       THEN /\ Advance(t, <<14, "ret">>, "nil", <<EvStep(14, "start"), EvStep(14, "success")>>)
            /\ loc' = loc
       ELSE \E listing \in {"ok", "fail"} :
              IF listing = "fail"
              THEN /\ Advance(t, <<14, "ret">>, "err",
                              <<EvStep(14, "start"), EvStep(14, "failed")>>)
                   /\ loc' = loc
              ELSE IF cancelled[t]
              THEN /\ Advance(t, <<14, "ret">>, "ctx",
                              <<EvStep(14, "start"), EvStep(14, "cancel")>> \o DoublePrecheck)
                   /\ loc' = loc
              ELSE /\ Advance(t, <<14, "sleep">>, "nil", <<EvStep(14, "start"), EvExec(14)>>)
                   /\ loc' = [loc EXCEPT ![t].namespace = getNamespace(ledger, "next"),
                                         ![t].consecutiveSuccess = 0,
                                         ![t].polls = 0,
                                         ![t].lastPolls = << >>,
                                         ![t].completedPods = {}]
    /\ UNCHANGED <<restOfTask, ledger0, config, cluster>>

\* a prober that counts a poll as soon as no pod is in an abnormal state
allPodsRunning_countsNormal(podStates) ==
    /\ DOMAIN podStates # {}
    /\ \A p \in DOMAIN podStates : isPodNormalState(podStates[p])

\* runningPods == totalPods && totalPods > 0
allPodsRunning(podStates) ==
    /\ DOMAIN podStates # {}
    /\ \A p \in DOMAIN podStates : podStates[p] = "Running"

\* the last two polls of Phase A that went on to count: for each, whether
\* every pod it listed was Running
Polled(h, podStates) ==
    LET r == \A p \in DOMAIN podStates : podStates[p] = "Running"
    IN  IF Len(h) < requiredSuccess THEN Append(h, r) ELSE Tail(h) \o <<r>>

\* CheckServicesReady: the cancellable 15 s wait before the first poll
CheckServicesReady(t) ==
    /\ pc[t] = <<14, "sleep">>
    /\ IF cancelled[t]
       THEN Goto(t, <<14, "post">>, "ctx", << >>)
       ELSE Goto(t, <<14, "phaseA">>, "nil", << >>)
    /\ UNCHANGED <<restOfTask, loc>>
    /\ UNCHANGED envVars

\* waitForAllPodsRunning: one iteration of the Phase A loop
waitForAllPodsRunning(t) ==
    /\ pc[t] = <<14, "phaseA">>
    /\ IF cancelled[t]
       THEN /\ Goto(t, <<14, "post">>, "ctx", << >>)
            /\ loc' = loc
       ELSE \E deadlinePassed \in BOOLEAN, listed \in BOOLEAN, podStates \in PodStates :
              /\ deadlinePassed => loc[t].polls >= 1
              /\ (loc[t].polls >= MaxPollsA) => deadlinePassed
              /\ IF deadlinePassed
                 THEN /\ loc' = loc
                      /\ IF ~listed
                         THEN Goto(t, <<14, "post">>, "err", <<EvDo(14, "timeoutA")>>)
                         ELSE Goto(t, <<14, "scale">>, "err", <<EvDo(14, "timeoutA")>>)
                 ELSE IF ~listed
                 THEN /\ loc' = loc
                      /\ Goto(t, <<14, "post">>, "err", << >>)
                 ELSE IF \E p \in DOMAIN podStates : ~isPodNormalState(podStates[p])
                 THEN /\ loc' = loc
                      /\ Goto(t, <<14, "scale">>, "err", <<EvDo(14, "abnormal")>>)
                 ELSE IF allPodsRunning(podStates)
                 THEN IF loc[t].consecutiveSuccess + 1 >= requiredSuccess
                      THEN /\ loc' = [loc EXCEPT ![t].consecutiveSuccess = 0, ![t].polls = 0,
                                                 ![t].lastPolls = Polled(@, podStates)]
                           /\ Goto(t, <<14, "phaseB">>, "nil", << >>)
                      ELSE /\ loc' = [loc EXCEPT ![t].consecutiveSuccess = @ + 1,
                                                 ![t].polls = @ + 1,
                                                 ![t].lastPolls = Polled(@, podStates)]
                           /\ Goto(t, <<14, "phaseA">>, "nil", << >>)
                 ELSE /\ loc' = [loc EXCEPT ![t].consecutiveSuccess = 0, ![t].polls = @ + 1,
                                            ![t].lastPolls = Polled(@, podStates)]
                      /\ Goto(t, <<14, "phaseA">>, "nil", << >>)
    /\ UNCHANGED restOfTask
    /\ UNCHANGED envVars

\* checkPodsHealthiness: one round of the Phase B loop; getAllPods fails when
\* the command fails or the namespace lists no pod (currentPods = {})
checkPodsHealthiness(t) ==
    /\ pc[t] = <<14, "phaseB">>
    /\ IF cancelled[t]
       THEN /\ Goto(t, <<14, "post">>, "ctx", << >>)
            /\ loc' = loc
       ELSE \E deadlinePassed \in BOOLEAN, currentPods \in SUBSET Pods :
            \E newlyCompleted \in SUBSET (currentPods \ loc[t].completedPods) :
              /\ deadlinePassed => loc[t].polls >= 1
              /\ (loc[t].polls >= MaxPollsB) => deadlinePassed
              /\ IF deadlinePassed
                 THEN /\ loc' = loc
                      /\ IF currentPods = {}
                         THEN Goto(t, <<14, "post">>, "err", <<EvDo(14, "timeoutB")>>)
                         ELSE Goto(t, <<14, "scale">>, "err", <<EvDo(14, "timeoutB")>>)
                 ELSE IF currentPods = {}
                 THEN /\ loc' = loc
                      /\ Goto(t, <<14, "post">>, "err", << >>)
                 ELSE IF currentPods \subseteq loc[t].completedPods
                 THEN /\ loc' = loc
                      /\ Goto(t, <<14, "post">>, "nil", << >>)
                 ELSE IF currentPods \subseteq (loc[t].completedPods \cup newlyCompleted)
                 THEN /\ loc' = [loc EXCEPT ![t].completedPods = @ \cup newlyCompleted]
                      /\ Goto(t, <<14, "post">>, "nil", << >>)
                 ELSE /\ loc' = [loc EXCEPT ![t].completedPods = @ \cup newlyCompleted,
                                            ![t].polls = @ + 1]
                      /\ Goto(t, <<14, "phaseB">>, "nil", << >>)
    /\ UNCHANGED restOfTask
    /\ UNCHANGED envVars

\* a scale-down that reaches the Deployments only
scaleDownAll_deploymentsOnly(r, colour, ctxDone) ==
    IF ctxDone \/ colour \notin Colours THEN r
    ELSE [r EXCEPT ![colour]["Deployment"] = 0]

\* what scaleDownFailedControllers leaves of the replica counts: every
\* Deployment, StatefulSet and standalone ReplicaSet of the namespace at 0;
\* kubectl runs under the task's context, so nothing is listed once it is cancelled
scaleDownAll(r, colour, ctxDone) ==
    IF ctxDone \/ colour \notin Colours THEN r
    ELSE [r EXCEPT ![colour] = [k \in Controllers |-> 0]]

scaleDownFailedControllers(t) ==
    /\ pc[t] = <<14, "scale">>
    /\ replicas' = scaleDownAll(replicas, ColourOf(loc[t].namespace), cancelled[t])
    /\ Goto(t, <<14, "post">>, "err", <<EvDo(14, "scaleDown")>>)
    /\ UNCHANGED <<restOfTask, loc, ledger, ledger0, config, serving, nginxConf, nginxLive, nginxDenied>>

\* step14CheckServiceReady after CheckServicesReady returned
step14CheckServiceReadyResult(t) ==
    /\ pc[t] = <<14, "post">>
    /\ IF err[t] = "nil"
       THEN Advance(t, <<14, "ret">>, "nil", <<EvStep(14, "success")>>)
       ELSE IF cancelled[t]
       THEN Advance(t, <<14, "ret">>, "ctx", <<EvStep(14, "cancel")>> \o sendCancelNotifications)
       ELSE Advance(t, <<14, "ret">>, "err", <<EvStep(14, "failed")>>)
    /\ UNCHANGED <<restOfTask, loc, ledger0, config, cluster>>

(* ----------------------- step 15: traffic switching -------------------- *)
\* step15TrafficSwitching up to switcher.Execute
step15TrafficSwitching(t) ==
    /\ ttype[t] = "double"
    /\ pc[t] = <<15, "begin">>
    /\ IF ~HasVersionStructure
       THEN /\ Advance(t, <<15, "ret">>, "nil", <<EvStep(15, "start"), EvStep(15, "success")>>)
            /\ loc' = loc
       ELSE IF cancelled[t]
       THEN /\ Advance(t, <<15, "ret">>, "ctx",
                       <<EvStep(15, "start"), EvStep(15, "cancel")>> \o DoublePrecheck)
            /\ loc' = loc
       ELSE /\ Advance(t, <<15, "exec">>, "nil", <<EvStep(15, "start"), EvExec(15)>>)
            /\ loc' = [loc EXCEPT ![t].version =
                          VersionOfNamespace(getNamespace(ledger, "next"))]
    /\ UNCHANGED <<restOfTask, ledger0, config, cluster>>

\* callProxySwitch, per endpoint: the status code each configured endpoint
\* answered with (0 for an endpoint that is not configured and not called)
callProxySwitch(urls, resp) ==
    [e \in Endpoints |-> IF e \in urls THEN resp[e] ELSE 0]

\* switchAllProxies: every endpoint is called; one answering 200 routes to version
switchAllProxies(sv, urls, resp, version) ==
    [e \in Endpoints |-> IF e \in urls /\ resp[e] = 200 THEN version ELSE sv[e]]

\* a switcher that reports an error only when no endpoint could be switched
proxySwitchErrors_onlyWhenAllFail(urls, resp) ==
    urls # {} /\ \A e \in urls : resp[e] # 200

\* switchAllProxies, len(errors) > 0: some goroutine put an error on errorChan
proxySwitchErrors(urls, resp) ==
    \E e \in urls : resp[e] # 200

\* ProxySwitcher.Execute: no endpoint configured returns nil without a call
executeProxySwitch(t) ==
    /\ config.proxy
    /\ \E resp \in [Endpoints -> {200, 500}] :
         /\ cancelled[t] => \A e \in Endpoints : resp[e] = 500
         /\ serving' = switchAllProxies(serving, config.urls, resp, loc[t].version)
         /\ loc' = [loc EXCEPT ![t].answers = callProxySwitch(config.urls, resp)]
         /\ IF config.urls = {}
            THEN Goto(t, <<15, "post">>, "nil", <<EvDo(15, "noEndpoint")>>)
            ELSE IF proxySwitchErrors(config.urls, resp)
            THEN Goto(t, <<15, "post">>, "err", <<EvDo(15, "switchFailed")>>)
            ELSE Goto(t, <<15, "post">>, "nil", <<EvDo(15, "switched")>>)
    /\ UNCHANGED <<nginxConf, nginxLive, nginxDenied>>

\* updateAllNginxConfigs: a file holding a backend address gets the new one;
\* a file that cannot be read is left as it is (warning, continue)
updateAllNginxConfigs(conf, denied, version) ==
    [f \in NginxFiles |-> IF conf[f] = None \/ f \in denied THEN conf[f] ELSE version]

\* verifyNginxConfig: no file that was read may lack the expected address;
\* a file that cannot be read is skipped (warning, continue)
verifyNginxConfig(conf, denied, version) ==
    \A f \in NginxFiles \ denied : conf[f] = version

\* what nginx routes to once it has reloaded the files
LoadedConfig(conf, version) ==
    IF \A f \in NginxFiles : conf[f] \in {version, None} THEN version ELSE "mixed"

\* executeNginxSwitch: gateway address, rewrite, verify, reload
executeNginxSwitch(t) ==
    /\ ~config.proxy
    /\ \E gatewayFound \in BOOLEAN, reloaded \in BOOLEAN :
         /\ cancelled[t] => ~gatewayFound
         /\ IF ~gatewayFound
            THEN /\ nginxConf' = nginxConf
                 /\ nginxLive' = nginxLive
                 /\ Goto(t, <<15, "post">>, "err", <<EvDo(15, "switchFailed")>>)
            ELSE /\ nginxConf' = updateAllNginxConfigs(nginxConf, nginxDenied, loc[t].version)
                 /\ IF ~verifyNginxConfig(nginxConf', nginxDenied, loc[t].version)
                    THEN /\ nginxLive' = nginxLive
                         /\ Goto(t, <<15, "post">>, "err", <<EvDo(15, "switchFailed")>>)
                    ELSE /\ nginxLive' = IF reloaded
                                         THEN LoadedConfig(nginxConf', loc[t].version)
                                         ELSE nginxLive
                         /\ Goto(t, <<15, "post">>, "nil",
                                 <<EvDo(15, "reload"), EvDo(15, "switched")>>)
    /\ UNCHANGED <<serving, loc, nginxDenied>>

\* TrafficSwitcher.Execute
TrafficSwitcher_Execute(t) ==
    /\ pc[t] = <<15, "exec">>
    /\ \/ executeProxySwitch(t)
       \/ executeNginxSwitch(t)
    /\ UNCHANGED <<restOfTask, ledger, ledger0, config, replicas>>

\* a ledger whose update never reaches the file
UpdateVersion_dropsWrite(l, newVersion, written) ==
    GetCurrentVersion(l)

\* UpdateVersion: read-modify-write of current_version; a failed write leaves the file
UpdateVersion(l, newVersion, written) ==
    IF written THEN newVersion ELSE GetCurrentVersion(l)

\* a step 15 that advances the ledger before it looks at the switcher's result
step15_ledgerBeforeResult(t) ==
    /\ pc[t] = <<15, "post">>
    /\ ledger' = loc[t].version
    /\ IF err[t] # "nil"
       THEN Goto(t, <<15, "ret">>, "err", <<EvDo(15, "ledger"), EvStep(15, "failed")>>)
       ELSE Goto(t, <<15, "ret">>, "nil", <<EvDo(15, "ledger"), EvStep(15, "success")>>)
    /\ UNCHANGED <<restOfTask, loc, ledger0, config, cluster>>

\* step15TrafficSwitching after switcher.Execute returned
step15TrafficSwitchingResult(t) ==
    /\ pc[t] = <<15, "post">>
    /\ IF err[t] # "nil"
       THEN /\ Advance(t, <<15, "ret">>, "err", <<EvStep(15, "failed")>>)
       ELSE \E written \in BOOLEAN :
              /\ ledger' = UpdateVersion(ledger, loc[t].version, written)
              /\ Goto(t, <<15, "ret">>, "nil",
                      <<EvDo(15, IF written THEN "ledger" ELSE "ledgerFailed"),
                        EvStep(15, "success")>>)
    /\ UNCHANGED <<restOfTask, loc, ledger0, config, cluster>>

(* ----------------------- step 16: old-version reclaimer ---------------- *)
\* step16CleanupOldVersion up to cleaner.Execute
step16CleanupOldVersion(t) ==
    /\ ttype[t] = "double"
    /\ pc[t] = <<16, "begin">>
    /\ IF ~HasVersionStructure
       THEN /\ Advance(t, <<16, "ret">>, "nil", <<EvStep(16, "start"), EvStep(16, "success")>>)
            /\ loc' = loc
       ELSE IF cancelled[t]
       THEN /\ Advance(t, <<16, "ret">>, "ctx",
                       <<EvStep(16, "start"), EvStep(16, "cancel")>> \o DoublePrecheck)
            /\ loc' = loc
       ELSE /\ Advance(t, <<16, "sleep">>, "nil", <<EvStep(16, "start"), EvExec(16)>>)
            /\ loc' = [loc EXCEPT ![t].oldNamespace = getNamespace(ledger, "next"),
                                  ![t].polls = 0]
    /\ UNCHANGED <<restOfTask, ledger0, config, cluster>>

\* VersionCleaner.Execute: the cancellable 55 s wait, then the directory test
VersionCleaner_Execute(t) ==
    /\ pc[t] = <<16, "sleep">>
    /\ IF cancelled[t]
       THEN Goto(t, <<16, "post">>, "ctx", << >>)
       ELSE \E dirExists \in BOOLEAN :
              IF dirExists
              THEN Goto(t, <<16, "scale">>, "nil", << >>)
              ELSE Goto(t, <<16, "post">>, "nil", <<EvDo(16, "dirMissing")>>)
    /\ UNCHANGED <<restOfTask, loc>>
    /\ UNCHANGED envVars

\* scaleDeploymentToZero: list the namespace's Deployments and scale each to 0
scaleDeploymentToZero(t) ==
    /\ pc[t] = <<16, "scale">>
    /\ \E listed \in BOOLEAN, scaled \in BOOLEAN :
         /\ cancelled[t] => ~listed
         /\ IF ~listed \/ ~scaled
            THEN /\ replicas' = replicas
                 /\ Goto(t, <<16, "post">>, "err", << >>)
            ELSE /\ replicas' = [replicas EXCEPT
                                   ![ColourOf(loc[t].oldNamespace)]["Deployment"] = 0]
                 /\ Goto(t, <<16, "wait">>, "nil", <<EvDo(16, loc[t].oldNamespace)>>)
    /\ UNCHANGED <<restOfTask, loc, ledger, ledger0, config, serving, nginxConf, nginxLive, nginxDenied>>

\* waitForResourcesDeletion between two polls: the cancellable 10 s sleep
\* that ends an iteration, the deadline test of the loop and the cancel check
\* at its head, up to the call of hasPodsInNamespace. A cancel seen in the
\* sleep returns ctx.Err(); one that fires after the sleep has ended meets
\* the deadline test first
waitForResourcesDeletion(t) ==
    /\ pc[t] = <<16, "wait">>
    /\ \/ /\ cancelled[t]
          /\ Goto(t, <<16, "post">>, "ctx", << >>)
       \/ /\ loc[t].polls >= MaxPollsDel
          /\ Goto(t, <<16, "post">>, "err", << >>)
       \/ /\ ~cancelled[t]
          /\ loc[t].polls < MaxPollsDel
          /\ Goto(t, <<16, "poll">>, "nil", << >>)
    /\ UNCHANGED <<restOfTask, loc>>
    /\ UNCHANGED envVars

\* what "kubectl get pods" of the old namespace gives: pod names, an empty
\* output, or a failed command
PodListings == {"pods", "none", "error"}

\* a poll that takes a failed command for pods that are still there
hasPodsInNamespace_errorMeansPods(listing) ==
    listing # "none"

\* hasPodsInNamespace: a failed command counts as no pod left
hasPodsInNamespace(listing) ==
    listing = "pods"

\* the poll of waitForResourcesDeletion: the command runs under the task's
\* context, so a cancel that has fired by now makes it fail
pollOldNamespace(t) ==
    /\ pc[t] = <<16, "poll">>
    /\ \E listing \in PodListings :
         /\ cancelled[t] => listing = "error"
         /\ IF hasPodsInNamespace(listing)
            THEN /\ Goto(t, <<16, "wait">>, "nil", <<EvDo(16, listing)>>)
                 /\ loc' = [loc EXCEPT ![t].polls = @ + 1]
            ELSE /\ Goto(t, <<16, "post">>, "nil", <<EvDo(16, listing)>>)
                 /\ loc' = loc
    /\ UNCHANGED restOfTask
    /\ UNCHANGED envVars

\* step16CleanupOldVersion after cleaner.Execute returned
step16CleanupOldVersionResult(t) ==
    /\ pc[t] = <<16, "post">>
    /\ IF err[t] # "nil"
       THEN Advance(t, <<16, "ret">>, "err", <<EvStep(16, "failed")>>)
       ELSE Advance(t, <<16, "ret">>, "nil", <<EvStep(16, "success")>>)
    /\ UNCHANGED <<restOfTask, loc, ledger0, config, cluster>>

\* the step sequence of ProcessDoubleVersionDeployment: what follows a step's return
ProcessDoubleVersionDeployment(t) ==
    /\ ttype[t] = "double"
    /\ \E n \in 9..16 :
         /\ pc[t] = <<n, "ret">>
         /\ IF err[t] # "nil"
            THEN IF cancelled[t]
                 THEN Goto(t, afterStep(n, err[t], 16), err[t], << >>)
                 ELSE Goto(t, afterStep(n, err[t], 16), err[t], sendFailureNotifications)
            ELSE IF n = 13 /\ ~HasVersionStructure
                 THEN Goto(t, afterStep(n, err[t], 16), "nil",
                           <<EvTask("complete"), EvCard("complete")>>)
            ELSE IF n < 16
                 THEN Goto(t, afterStep(n, err[t], 16), "nil", << >>)
                 ELSE Goto(t, afterStep(n, err[t], 16), "nil",
                           <<EvTask("complete"), EvCard("complete")>>)
    /\ UNCHANGED <<restOfTask, loc>>
    /\ UNCHANGED envVars

(* ----------------------------- web pipeline ---------------------------- *)
\* a web step: start notification, then its Execute
WebStepBegin(t) ==
    /\ ttype[t] = "web"
    /\ \E n \in 7..10 :
         /\ pc[t] = <<n, "begin">>
         /\ Goto(t, <<n, "exec">>, "nil", <<EvStep(n, "start"), EvExec(n)>>)
    /\ UNCHANGED <<restOfTask, loc>>
    /\ UNCHANGED envVars

\* ProcessRemoteRequest: what follows the return of a web step's Execute
ProcessRemoteRequest(t) ==
    /\ ttype[t] = "web"
    /\ \E n \in 7..10, result \in {"ok", "fail"} :
         /\ pc[t] = <<n, "exec">>
         \* downProduct's HTTP request carries the task's context; the other
         \* executors never look at it
         /\ (n = 7 /\ cancelled[t]) => result = "fail"
         /\ IF result = "fail"
            THEN Goto(t, afterStep(n, "err", 10), "err",
                      <<EvStep(n, "failed")>>
                      \o (IF n = 10 THEN <<EvDo(10, "rollback")>> ELSE << >>)
                      \o sendFailureNotifications)
            ELSE IF n < 10
            THEN Goto(t, afterStep(n, "nil", 10), "nil", <<EvStep(n, "success")>>)
            ELSE Goto(t, afterStep(n, "nil", 10), "nil",
                      <<EvStep(10, "success"), EvDo(10, "cleanupTempFiles"),
                        EvTask("complete"), EvCard("complete")>>)
    /\ UNCHANGED <<restOfTask, loc>>
    /\ UNCHANGED envVars

Next ==
    \/ \E t \in Tasks : HandleCallback(t)
    \/ \E t \in Tasks : CreateTaskContext(t)
    \/ \E id \in TaskIds : HandleCancel(id)
    \/ \E t \in Tasks : CleanupTask(t)
    \/ \E t \in Tasks : Single_step9PullOnline(t)
    \/ \E t \in Tasks : Single_step10TagImages(t)
    \/ \E t \in Tasks : Single_step11PushLocal(t)
    \/ \E t \in Tasks : Single_step12CheckImage(t)
    \/ \E t \in Tasks : Single_step13DeployService(t)
    \/ \E t \in Tasks : ProcessSingleVersionDeployment(t)
    \/ \E t \in Tasks : Double_step9PullOnline(t)
    \/ \E t \in Tasks : Double_step10TagImages(t)
    \/ \E t \in Tasks : Double_step11PushLocal(t)
    \/ \E t \in Tasks : Double_step12CheckImage(t)
    \/ \E t \in Tasks : Double_step13DeployService(t)
    \/ \E t \in Tasks : step14CheckServiceReady(t)
    \/ \E t \in Tasks : CheckServicesReady(t)
    \/ \E t \in Tasks : waitForAllPodsRunning(t)
    \/ \E t \in Tasks : checkPodsHealthiness(t)
    \/ \E t \in Tasks : scaleDownFailedControllers(t)
    \/ \E t \in Tasks : step14CheckServiceReadyResult(t)
    \/ \E t \in Tasks : step15TrafficSwitching(t)
    \/ \E t \in Tasks : TrafficSwitcher_Execute(t)
    \/ \E t \in Tasks : step15TrafficSwitchingResult(t)
    \/ \E t \in Tasks : step16CleanupOldVersion(t)
    \/ \E t \in Tasks : VersionCleaner_Execute(t)
    \/ \E t \in Tasks : scaleDeploymentToZero(t)
    \/ \E t \in Tasks : waitForResourcesDeletion(t)
    \/ \E t \in Tasks : pollOldNamespace(t)
    \/ \E t \in Tasks : step16CleanupOldVersionResult(t)
    \/ \E t \in Tasks : ProcessDoubleVersionDeployment(t)
    \/ \E t \in Tasks : WebStepBegin(t)
    \/ \E t \in Tasks : ProcessRemoteRequest(t)

Spec == Init /\ [][Next]_vars

(* ===================== fan-out executors (steps 9..12) ================= *)
\* largest item count handed to a fan-out executor
MaxItems == 21

\* calculatePullConcurrency / calculatePushConcurrency
maxConcurrency == 20
minConcurrency == 1

FanKinds == {"pullOnline", "tagImages", "pushLocal", "checkImage"}
FanSizes == {minConcurrency, minConcurrency + 1, MaxItems}

\* the error a worker sends to errChan: its command failed, or failed while
\* the context was cancelled
WorkerErrors == {"failed", "cancelled"}

calculatePullConcurrency(imageCount) ==
    IF imageCount <= maxConcurrency
    THEN IF imageCount < minConcurrency THEN minConcurrency ELSE imageCount
    ELSE maxConcurrency

\* capacity of the semaphore channel of each executor; TagImages has none and
\* starts one unthrottled goroutine per image
SemaphoreCapacity(kind, n) ==
    IF kind \in {"pullOnline", "pushLocal"} THEN calculatePullConcurrency(n)
    ELSE IF kind = "checkImage"
    THEN IF n < maxConcurrency THEN n ELSE maxConcurrency
    ELSE n

\* the pipelines are at rest while a fan-out executor is studied
PipelinesAtRest ==
    /\ pending = {}
    /\ pc = [t \in Tasks |-> Idle]
    /\ ttype = [t \in Tasks |-> None]
    /\ taskID = [t \in Tasks |-> None]
    /\ cancelled = [t \in Tasks |-> FALSE]
    /\ err = [t \in Tasks |-> "nil"]
    /\ log = [t \in Tasks |-> << >>]
    /\ loc = [t \in Tasks |-> InitLoc]
    /\ taskCtxMap = [i \in TaskIds |-> None]
    /\ cancelResp = NoAnswer
    /\ ledger = "v1"
    /\ ledger0 = "v1"
    /\ config = [double |-> TRUE, proxy |-> FALSE, urls |-> {}]
    /\ replicas = [c \in Colours |-> [k \in Controllers |-> IF c = "v1" THEN 1 ELSE 0]]
    /\ serving = [e \in Endpoints |-> "v1"]
    /\ nginxConf = [f \in NginxFiles |-> "v1"]
    /\ nginxLive = "v1"
    /\ nginxDenied = {}

\* the executor has been called with n items and has started its n goroutines
FanInit ==
    /\ PipelinesAtRest
    /\ led = NoLed
    /\ twin = NoTwin
    /\ wfs = NoWeb
    /\ tlog = NoLog
    /\ yaml = NoYaml
    /\ \E kind \in FanKinds, n \in FanSizes :
         fan = [NoFan EXCEPT !.kind = kind, !.n = n, !.waiting = n, !.ret = "running"]

\* the task's context is cancelled while the executor runs; unprocessed keeps
\* the number of items whose goroutine had not finished at that moment
FanCancel ==
    /\ fan.ret = "running"
    /\ ~fan.ctxDone
    /\ fan' = [fan EXCEPT !.ctxDone = TRUE, !.unprocessed = fan.waiting + fan.running]
    /\ UNCHANGED <<pipelineVars, led, twin, wfs, tlog, yaml>>

\* a goroutine passes (or is turned away at) the semaphore and the cancel check
\* that follows it; one turned away returns without sending anything
WorkerAcquire ==
    /\ fan.ret = "running"
    /\ fan.waiting > 0
    /\ \/ /\ fan.ctxDone
          /\ fan' = [fan EXCEPT !.waiting = @ - 1]
       \/ /\ ~fan.ctxDone
          /\ fan.running < SemaphoreCapacity(fan.kind, fan.n)
          /\ fan' = [fan EXCEPT !.waiting = @ - 1, !.running = @ + 1]
    /\ UNCHANGED <<pipelineVars, led, twin, wfs, tlog, yaml>>

\* what a worker's external call produced: "ok", an error, or (checkImage) a
\* status other than 200
WorkerOutcomes(kind, ctxDone) ==
    {"ok"} \cup (IF ctxDone THEN {"cancelled"} ELSE {"failed"})
           \cup (IF kind = "checkImage" THEN {"missing"} ELSE {})

\* a worker's external call returns; an error goes to errChan, a status other
\* than 200 to failedImages; the semaphore slot is released
WorkerDone ==
    /\ fan.ret = "running"
    /\ fan.running > 0
    /\ \E outcome \in WorkerOutcomes(fan.kind, fan.ctxDone) :
         fan' = [fan EXCEPT
                   !.running = @ - 1,
                   !.ok = IF outcome = "ok" THEN @ + 1 ELSE @,
                   !.missing = @ \/ outcome = "missing",
                   !.errs = IF outcome \in WorkerErrors THEN @ \cup {outcome} ELSE @,
                   !.first = IF outcome \in WorkerErrors /\ @ = None THEN outcome ELSE @]
    /\ UNCHANGED <<pipelineVars, led, twin, wfs, tlog, yaml>>

\* an executor whose result forgets the errors of cancelled commands
FanResult_dropsCancelled(f) ==
    IF f.first = "failed" THEN "failed"
    ELSE IF f.kind = "checkImage" /\ f.missing THEN "missing"
    ELSE "nil"

\* the executor's result after wg.Wait(): the first error of errChan, else
\* (CheckImages) the error listing failedImages, else nil
FanResult(f) ==
    IF f.first # None THEN f.first
    ELSE IF f.kind = "checkImage" /\ f.missing THEN "missing"
    ELSE "nil"

\* wg.Wait() returns when every goroutine has returned
FanReturn ==
    /\ fan.ret = "running"
    /\ fan.waiting = 0
    /\ fan.running = 0
    /\ fan' = [fan EXCEPT !.ret = FanResult(fan)]
    /\ UNCHANGED <<pipelineVars, led, twin, wfs, tlog, yaml>>

FanNext ==
    \/ FanCancel
    \/ WorkerAcquire
    \/ WorkerDone
    \/ FanReturn

FanSpec == FanInit /\ [][FanNext]_vars

(* -------------------- ledger callers (side specification) -------------- *)
\* ticks of the clock; one tick is the 0.01 s the duration is rounded to
MaxClock == 2

Callers == {"g1", "g2"}
Projects == {"app", "shop", "site-web"}
StepKeys == {"step_9_pullOnline", "step_12_checkImage", "step_7_downProduct"}
NoTime == -1

\* config.GetProjectPath: the project is listed under deployment.double or .single
GetProjectPath(p) ==
    p \in {"app", "shop"}

\* strings.Contains(project, "-web")
IsWebProject(p) ==
    p = "site-web"

\* stepKey of the steps a pipeline of project p runs
KeysOf(p) ==
    IF IsWebProject(p) THEN {"step_7_downProduct"}
    ELSE {"step_9_pullOnline", "step_12_checkImage"}

\* GetCurrentVersion on the whole record: a missing .current is created with
\* current_version v1 and no step durations, an existing one is read as it is
GetCurrentVersionInfo(f) ==
    [f EXCEPT !.version = GetCurrentVersion(@)]

\* getLastStepDuration: the .current files after the call (web projects are
\* not looked up, a project with no deployment directory gives an error)
getLastStepDuration(file, p) ==
    IF IsWebProject(p) \/ ~GetProjectPath(p) THEN file
    ELSE [file EXCEPT ![p] = GetCurrentVersionInfo(@)]

\* what a goroutine is about to do: run a step between its start and success
\* notifications, record the new live colour (UpdateVersion), or run steps 13
\* to 15 of a double rollout, which resolve the next colour and record it
Programs ==
    { c \in [op : {"step"}, project : Projects, key : StepKeys, newVersion : {None}] :
        c.key \in KeysOf(c.project) }
    \cup
    { [op |-> "version", project |-> p, key |-> None, newVersion |-> v] :
        p \in {"app", "shop"}, v \in Colours }
    \cup
    { [op |-> "rollout", project |-> p, key |-> None, newVersion |-> None] :
        p \in {"app", "shop"} }

\* the steps of a double rollout that resolve the next colour from .current
ResolvingSteps == {"deployService", "checkService", "trafficSwitching"}

StartOf(prog) ==
    [op |-> prog.op, project |-> prog.project, key |-> prog.key,
     newVersion |-> prog.newVersion,
     pc |-> IF prog.op = "step" THEN "start"
            ELSE IF prog.op = "rollout" THEN "deployService" ELSE "update",
     next |-> [s \in ResolvingSteps |-> None],
     startedAt |-> NoTime, finishedAt |-> NoTime,
     Duration |-> 0, copy |-> None, sent |-> FALSE, saved |-> FALSE]

LedInit ==
    /\ PipelinesAtRest
    /\ fan = NoFan
    /\ twin = NoTwin
    /\ wfs = NoWeb
    /\ tlog = NoLog
    /\ yaml = NoYaml
    /\ \E l \in {"absent", "v1"}, progs \in [Callers -> Programs] :
         led = [file |-> [p \in Projects |->
                           [version |-> IF GetProjectPath(p) THEN l ELSE "absent",
                            durations |-> {}]],
                stepStartTimes |-> [k \in StepKeys |-> NoTime],
                accessing |-> {},
                fatal |-> FALSE,
                now |-> 0,
                call |-> [g \in Callers |-> StartOf(progs[g])]]

\* time passes
\* the process runs: a ledger study is set up and the runtime has not aborted
ProcessAlive ==
    led # NoLed /\ ~led.fatal

\* a goroutine reaches the lookup of stepStartTimes in SendStepNotification;
\* the map is a plain Go map and nothing keeps a second goroutine out
MapAccessBegin(g) ==
    /\ ProcessAlive
    /\ led.call[g].pc \in {"start", "success"}
    /\ g \notin led.accessing
    /\ led' = [led EXCEPT !.accessing = @ \cup {g}]
    /\ UNCHANGED <<pipelineVars, fan, twin, wfs, tlog, yaml>>

\* two goroutines are in the map at once: the Go runtime may detect it and
\* abort the process (fatal error: concurrent map read and map write)
MapFault ==
    /\ ProcessAlive
    /\ Cardinality(led.accessing) > 1
    /\ led' = [led EXCEPT !.fatal = TRUE]
    /\ UNCHANGED <<pipelineVars, fan, twin, wfs, tlog, yaml>>

Tick ==
    /\ ProcessAlive
    /\ led.now < MaxClock
    /\ led' = [led EXCEPT !.now = @ + 1]
    /\ UNCHANGED <<pipelineVars, fan, twin, wfs, tlog, yaml>>

\* SendStepNotification(status = "start"): the start time is recorded under
\* the step key unless the map already holds one
NotifyStart(g) ==
    /\ ProcessAlive
    /\ led.call[g].pc = "start"
    /\ g \in led.accessing
    /\ LET c == led.call[g]
       IN  led' = [led EXCEPT
                     !.file = getLastStepDuration(@, c.project),
                     !.stepStartTimes[c.key] = IF @ = NoTime THEN led.now ELSE @,
                     !.accessing = @ \ {g},
                     !.call[g].startedAt = led.now,
                     !.call[g].pc = "exec"]
    /\ UNCHANGED <<pipelineVars, fan, twin, wfs, tlog, yaml>>

\* the step's executor runs and reports success
Execute(g) ==
    /\ ProcessAlive
    /\ led.call[g].pc = "exec"
    /\ led' = [led EXCEPT !.call[g].pc = "success"]
    /\ UNCHANGED <<pipelineVars, fan, twin, wfs, tlog, yaml>>

\* SendStepNotification(status = "success") up to the HTTP POST: Duration is
\* computed from the recorded start time, which is then deleted; with no
\* start time under the key Duration stays 0
NotifyPrepare(g) ==
    /\ ProcessAlive
    /\ led.call[g].pc = "success"
    /\ g \in led.accessing
    /\ LET c == led.call[g]
           startTime == led.stepStartTimes[c.key]
       IN  led' = [led EXCEPT
                     !.file = getLastStepDuration(@, c.project),
                     !.stepStartTimes[c.key] = NoTime,
                     !.accessing = @ \ {g},
                     !.call[g].pc = "post",
                     !.call[g].finishedAt = led.now,
                     !.call[g].Duration =
                         IF startTime = NoTime THEN 0 ELSE led.now - startTime]
    /\ UNCHANGED <<pipelineVars, fan, twin, wfs, tlog, yaml>>

\* the POST returns: anything but 200 ends the call; after a 200 the duration
\* goes to the ledger only when it is above zero
NotifyRoundTrip(g) ==
    /\ ProcessAlive
    /\ led.call[g].pc = "post"
    /\ \E StatusCode \in {200, 500} :
         led' = [led EXCEPT
                   !.call[g].sent = (StatusCode = 200),
                   !.call[g].pc = IF StatusCode = 200 /\ led.call[g].Duration > 0
                                  THEN "update" ELSE "done"]
    /\ UNCHANGED <<pipelineVars, fan, twin, wfs, tlog, yaml>>

\* UpdateVersion / UpdateStepDuration, first half: GetCurrentVersion hands the
\* caller its own copy of the record (an error when the project has no path)
LedgerRead(g) ==
    /\ ProcessAlive
    /\ led.call[g].pc = "update"
    /\ LET c == led.call[g]
       IN  IF ~GetProjectPath(c.project)
           THEN led' = [led EXCEPT !.call[g].pc = "done"]
           ELSE led' = [led EXCEPT
                          !.file[c.project] = GetCurrentVersionInfo(@),
                          !.call[g].copy = GetCurrentVersionInfo(led.file[c.project]),
                          !.call[g].pc = "save"]
    /\ UNCHANGED <<pipelineVars, fan, twin, wfs, tlog, yaml>>

\* second half: the copy is changed and saveVersionFile writes all of it
LedgerSave(g) ==
    /\ ProcessAlive
    /\ led.call[g].pc = "save"
    /\ LET c == led.call[g]
           versionInfo == IF c.op = "step"
                          THEN [c.copy EXCEPT !.durations = @ \cup {c.key}]
                          ELSE [c.copy EXCEPT !.version = c.newVersion]
       IN  led' = [led EXCEPT
                     !.file[c.project] = versionInfo,
                     !.call[g].saved = TRUE,
                     !.call[g].pc = "done"]
    /\ UNCHANGED <<pipelineVars, fan, twin, wfs, tlog, yaml>>

\* steps 13, 14 and 15 of a double rollout: each reads .current again and
\* takes the colour opposite to the recorded one (GetDeploymentPath at step 13,
\* getNamespace(project, "next") at steps 14 and 15); after the switch of
\* step 15 the colour it resolved is handed to UpdateVersion
ResolveNext(g) ==
    /\ ProcessAlive
    /\ led.call[g].pc \in ResolvingSteps
    /\ LET c == led.call[g]
           l == led.file[c.project].version
           colour == IF c.pc = "deployService" THEN ColourOf(GetDeploymentPath(l))
                     ELSE VersionOfNamespace(getNamespace(l, "next"))
       IN  led' = [led EXCEPT
                     !.file[c.project] = GetCurrentVersionInfo(@),
                     !.call[g].next[c.pc] = colour,
                     !.call[g].newVersion =
                         IF c.pc = "trafficSwitching" THEN colour ELSE @,
                     !.call[g].pc = IF c.pc = "deployService" THEN "checkService"
                                    ELSE IF c.pc = "checkService" THEN "trafficSwitching"
                                    ELSE "update"]
    /\ UNCHANGED <<pipelineVars, fan, twin, wfs, tlog, yaml>>

LedNext ==
    \/ Tick
    \/ \E g \in Callers : ResolveNext(g)
    \/ \E g \in Callers : MapAccessBegin(g)
    \/ MapFault
    \/ \E g \in Callers : NotifyStart(g)
    \/ \E g \in Callers : Execute(g)
    \/ \E g \in Callers : NotifyPrepare(g)
    \/ \E g \in Callers : NotifyRoundTrip(g)
    \/ \E g \in Callers : LedgerRead(g)
    \/ \E g \in Callers : LedgerSave(g)

LedSpec == LedInit /\ [][LedNext]_vars

(* --------------- notification outcomes (side specification) ------------ *)
\* Two copies of one double pipeline are driven by the same inputs (listing
\* results, executor results, the cancel signal).  Every notification of the
\* copy "ref" is answered 200; a notification of the copy "run" may fail.

\* the steps of the pipeline under study (they share the shape of step9PullOnline)
FirstTwinStep == 9
LastTwinStep == 10

Copies == {"ref", "run"}
NotifyResults == {"ok", "transport", "non200"}
StepInputs == [listErr : BOOLEAN, execErr : BOOLEAN]

\* a notification call that drops the pipeline out when it failed (no call
\* site in the pipelines does this)
Notified_abortsOnError(c, ev, result, next) ==
    [c EXCEPT !.attempted = Append(@, ev),
              !.failures = @ + (IF result = "ok" THEN 0 ELSE 1),
              !.pc = IF result = "ok" THEN next ELSE Returned,
              !.ret = IF result = "ok" THEN @ ELSE "notifyError"]

\* a call of SendStepNotification / SendTaskNotification / SendFeishuCard in
\* a pipeline: the returned error is dropped or logged, the caller goes on
Notified(c, ev, result, next) ==
    [c EXCEPT !.attempted = Append(@, ev),
              !.failures = @ + (IF result = "ok" THEN 0 ELSE 1),
              !.pc = next]

\* one step of a pipeline copy at its position, for the inputs of this moment
StepOf(c, in, ctxDone, result) ==
    LET n == c.pc[1]
        ph == c.pc[2]
    IN  CASE ph = "start" ->
                 Notified(c, EvStep(n, "start"), result, <<n, "list">>)
          [] ph = "list" ->
                 [c EXCEPT !.pc = IF in.listErr THEN <<n, "listFailed">>
                                  ELSE IF ctxDone THEN <<n, "precancel">>
                                  ELSE <<n, "exec">>]
          [] ph = "listFailed" ->
                 Notified(c, EvStep(n, "failed"), result, <<n, "error">>)
          [] ph = "precancel" ->
                 Notified(c, EvStep(n, "cancel"), result, <<n, "precancelTask">>)
          [] ph = "precancelTask" ->
                 Notified(c, EvTask("cancel"), result, <<n, "error">>)
          [] ph = "exec" ->
                 [c EXCEPT !.attempted = Append(@, EvExec(n)),
                           !.pc = IF ~in.execErr THEN <<n, "success">>
                                  ELSE IF ctxDone THEN <<n, "execCancel">>
                                  ELSE <<n, "execFailed">>]
          [] ph = "execCancel" ->
                 Notified(c, EvStep(n, "cancel"), result, <<n, "cancelTask">>)
          [] ph = "cancelTask" ->
                 Notified(c, EvTask("cancel"), result, <<n, "cancelCard">>)
          [] ph = "cancelCard" ->
                 Notified(c, EvCard("cancel"), result, <<n, "error">>)
          [] ph = "execFailed" ->
                 Notified(c, EvStep(n, "failed"), result, <<n, "error">>)
          [] ph = "success" ->
                 Notified(c, EvStep(n, "success"), result,
                          IF n < LastTwinStep THEN <<n + 1, "start">>
                          ELSE <<0, "completeTask">>)
          [] ph = "error" ->
                 IF ctxDone THEN [c EXCEPT !.pc = Returned, !.ret = "cancelled"]
                 ELSE [c EXCEPT !.pc = <<0, "failedTask">>]
          [] ph = "failedTask" ->
                 Notified(c, EvTask("failed"), result, <<0, "failedCard">>)
          [] ph = "failedCard" ->
                 [Notified(c, EvCard("failed"), result, Returned)
                     EXCEPT !.ret = IF @ = None THEN "failed" ELSE @]
          [] ph = "completeTask" ->
                 Notified(c, EvTask("complete"), result, <<0, "completeCard">>)
          [] ph = "completeCard" ->
                 [Notified(c, EvCard("complete"), result, Returned)
                     EXCEPT !.ret = IF @ = None THEN "nil" ELSE @]
          [] OTHER -> c

TwinInit ==
    /\ PipelinesAtRest
    /\ fan = NoFan
    /\ led = NoLed
    /\ wfs = NoWeb
    /\ tlog = NoLog
    /\ yaml = NoYaml
    /\ twin = [cancelled |-> FALSE,
               copy |-> [k \in Copies |->
                           [pc |-> <<FirstTwinStep, "start">>, attempted |-> << >>,
                            failures |-> 0, ret |-> None]]]

\* the cancel endpoint fires the context both copies run under
TwinCancel ==
    /\ twin # NoTwin
    /\ ~twin.cancelled
    /\ \E k \in Copies : twin.copy[k].pc # Returned
    /\ twin' = [twin EXCEPT !.cancelled = TRUE]
    /\ UNCHANGED <<pipelineVars, fan, led, wfs, tlog, yaml>>

\* both copies take their next step on the same inputs; only the answer to
\* the notification of "run" is free
TwinStep ==
    /\ twin # NoTwin
    /\ \E k \in Copies : twin.copy[k].pc # Returned
    /\ \E in \in StepInputs, result \in NotifyResults :
         twin' = [twin EXCEPT !.copy = [k \in Copies |->
                     StepOf(twin.copy[k], in, twin.cancelled,
                            IF k = "ref" THEN "ok" ELSE result)]]
    /\ UNCHANGED <<pipelineVars, fan, led, wfs, tlog, yaml>>

TwinNext ==
    \/ TwinCancel
    \/ TwinStep

TwinSpec == TwinInit /\ [][TwinNext]_vars

(* ------------------ web rollout on disk (side specification) ----------- *)
\* what a directory holds: nothing on disk, the release that was live, the
\* new release, a half-copied release, an empty directory, an older backup
DirStates == {"absent", "old", "new", "partial", "empty", "stale"}

\* what the dist directory of the unpacked product becomes once it is moved
Deployed(dist) ==
    IF dist = "full" THEN "new" ELSE "empty"

\* os.Rename(src, dst) of a directory: fails when dst exists and is not empty
RenameAllowed(dst) ==
    dst \in {"absent", "empty"}

\* an orchestrator that gives up when the rollback failed
afterRollback_reraises(rollbackErr) ==
    IF rollbackErr THEN "returned" ELSE "notifyFailed"

\* ProcessRemoteRequest after rollbackDeployment returned: the error is
\* logged and the failure notifications follow in either case
afterRollback(rollbackErr) ==
    "notifyFailed"

WebInit ==
    /\ PipelinesAtRest
    /\ fan = NoFan
    /\ led = NoLed
    /\ twin = NoTwin
    /\ tlog = NoLog
    /\ yaml = NoYaml
    /\ \E web \in {"absent", "old"}, backup \in {"absent", "stale"}, extractDir \in BOOLEAN :
         wfs = [pc |-> "downProduct", web |-> web, backup |-> backup, zip |-> FALSE,
                extractDir |-> extractDir, dist |-> "absent", rollback |-> "none",
                download |-> None, sent |-> << >>, ret |-> None]

\* how the GET of the product ends: a 200 whose body is saved, a transport
\* error, a status other than 200, or a failure while saving the body
DownloadOutcomes == {"ok", "transport", "non200", "write"}

\* an orchestrator that reports the failed step and then returns in silence
WebFail_stepOnly(w, n) ==
    [w EXCEPT !.sent = @ \o <<EvStep(n, "start"), EvStep(n, "failed")>>,
              !.ret = "err",
              !.pc = "returned"]

\* a step of the web pipeline failed before deployNew: step failed, task
\* failed, card, return
WebFail(w, n) ==
    [w EXCEPT !.sent = @ \o <<EvStep(n, "start"), EvStep(n, "failed")>>
                         \o sendFailureNotifications,
              !.ret = "err",
              !.pc = "returned"]

\* step 7, DownProductStep.Execute: the zip is downloaded to the temp path
WebDownProduct ==
    /\ wfs # NoWeb
    /\ wfs.pc = "downProduct"
    /\ \E download \in DownloadOutcomes, created \in BOOLEAN :
         wfs' = IF download = "ok"
                THEN [wfs EXCEPT !.zip = TRUE,
                                 !.download = download,
                                 !.sent = @ \o <<EvStep(7, "start"), EvStep(7, "success")>>,
                                 !.pc = "extractProduct"]
                ELSE [WebFail(wfs, 7) EXCEPT !.zip = (download = "write" /\ created),
                                               !.download = download]
    /\ UNCHANGED <<pipelineVars, fan, led, twin, tlog, yaml>>

\* step 8, ExtractProductStep.Execute: /tmp/web-extract is emptied and the
\* zip unpacked into it
WebExtractProduct ==
    /\ wfs # NoWeb
    /\ wfs.pc = "extractProduct"
    /\ \E ok \in BOOLEAN, made \in BOOLEAN, dist \in {"absent", "empty", "full"} :
         wfs' = IF ok
                THEN [wfs EXCEPT !.extractDir = TRUE,
                                 !.dist = dist,
                                 !.sent = @ \o <<EvStep(8, "start"), EvStep(8, "success")>>,
                                 !.pc = "backupCurrent"]
                ELSE [WebFail(wfs, 8) EXCEPT !.extractDir = made]
    /\ UNCHANGED <<pipelineVars, fan, led, twin, tlog, yaml>>

\* step 9, BackupCurrentStep.Execute: the old backup is removed (a failure is
\* a warning), no web directory means nothing to back up, else web is renamed
\* to web_backup
WebBackupCurrent ==
    /\ wfs # NoWeb
    /\ wfs.pc = "backupCurrent"
    /\ \E removed \in BOOLEAN, renameOk \in BOOLEAN :
         LET backup1 == IF removed THEN "absent" ELSE wfs.backup
         IN  wfs' = IF wfs.web = "absent"
                    THEN [wfs EXCEPT !.backup = backup1,
                                     !.sent = @ \o <<EvStep(9, "start"), EvStep(9, "success")>>,
                                     !.pc = "deployNew"]
                    ELSE IF renameOk /\ RenameAllowed(backup1)
                    THEN [wfs EXCEPT !.backup = wfs.web,
                                     !.web = "absent",
                                     !.sent = @ \o <<EvStep(9, "start"), EvStep(9, "success")>>,
                                     !.pc = "deployNew"]
                    ELSE [WebFail(wfs, 9) EXCEPT !.backup = backup1]
    /\ UNCHANGED <<pipelineVars, fan, led, twin, tlog, yaml>>

\* step 10, DeployNewStep.Execute: dist is moved to the web path (rename, or
\* copy and delete when the rename fails) and the result is verified
WebDeployNew ==
    /\ wfs # NoWeb
    /\ wfs.pc = "deployNew"
    /\ \E mkdirOk \in BOOLEAN, removeOk \in BOOLEAN, renameOk \in BOOLEAN, copyOk \in BOOLEAN :
         LET failed(w) == [w EXCEPT !.sent = @ \o <<EvStep(10, "start"), EvStep(10, "failed")>>,
                                    !.pc = "rollback"]
             moved == [wfs EXCEPT !.web = Deployed(wfs.dist), !.dist = "absent"]
         IN  wfs' = IF wfs.dist = "absent" \/ ~mkdirOk THEN failed(wfs)
                    ELSE IF wfs.web # "absent" /\ ~removeOk THEN failed(wfs)
                    ELSE IF ~renameOk /\ ~copyOk
                    THEN failed([wfs EXCEPT !.web = "partial"])
                    ELSE IF Deployed(wfs.dist) = "empty" THEN failed(moved)
                    ELSE [moved EXCEPT
                            !.sent = @ \o <<EvStep(10, "start"), EvStep(10, "success")>>,
                            !.pc = "cleanup"]
    /\ UNCHANGED <<pipelineVars, fan, led, twin, tlog, yaml>>

\* rollbackDeployment: no backup is an error; else the failed deployment is
\* removed (a failure is a warning) and web_backup renamed back to web
rollbackDeployment ==
    /\ wfs # NoWeb
    /\ wfs.pc = "rollback"
    /\ \E removeOk \in BOOLEAN, renameOk \in BOOLEAN :
         LET web1 == IF removeOk THEN "absent" ELSE wfs.web
             restored == wfs.backup # "absent" /\ renameOk /\ RenameAllowed(web1)
         IN  wfs' = IF wfs.backup = "absent"
                    THEN [wfs EXCEPT !.rollback = "failed", !.pc = afterRollback(TRUE)]
                    ELSE IF restored
                    THEN [wfs EXCEPT !.web = wfs.backup, !.backup = "absent",
                                     !.rollback = "restored",
                                     !.pc = afterRollback(FALSE)]
                    ELSE [wfs EXCEPT !.web = web1, !.rollback = "failed",
                                     !.pc = afterRollback(TRUE)]
    /\ UNCHANGED <<pipelineVars, fan, led, twin, tlog, yaml>>

\* ProcessRemoteRequest after the rollback: task failed, card, return
WebNotifyFailed ==
    /\ wfs # NoWeb
    /\ wfs.pc = "notifyFailed"
    /\ wfs' = [wfs EXCEPT !.sent = @ \o sendFailureNotifications,
                          !.ret = "err",
                          !.pc = "returned"]
    /\ UNCHANGED <<pipelineVars, fan, led, twin, tlog, yaml>>

\* cleanupTempFiles and the completion notifications (success path only)
cleanupTempFiles ==
    /\ wfs # NoWeb
    /\ wfs.pc = "cleanup"
    /\ \E zipRemoved \in BOOLEAN, dirRemoved \in BOOLEAN :
         wfs' = [wfs EXCEPT !.zip = ~zipRemoved,
                            !.extractDir = ~dirRemoved,
                            !.sent = @ \o <<EvTask("complete"), EvCard("complete")>>,
                            !.ret = "nil",
                            !.pc = "returned"]
    /\ UNCHANGED <<pipelineVars, fan, led, twin, tlog, yaml>>

WebNext ==
    \/ WebDownProduct
    \/ WebExtractProduct
    \/ WebBackupCurrent
    \/ WebDeployNew
    \/ rollbackDeployment
    \/ WebNotifyFailed
    \/ cleanupTempFiles

WebSpec == WebInit /\ [][WebNext]_vars

(* ------------------ task registry (side specification) ---------------- *)
\* two callbacks are delivered; the pipelines themselves are not followed
RegInit ==
    /\ pending = Tasks
    /\ pc = [t \in Tasks |-> Idle]
    /\ ttype = [t \in Tasks |-> None]
    /\ taskID = [t \in Tasks |-> None]
    /\ cancelled = [t \in Tasks |-> FALSE]
    /\ err = [t \in Tasks |-> "nil"]
    /\ log = [t \in Tasks |-> << >>]
    /\ loc = [t \in Tasks |-> InitLoc]
    /\ taskCtxMap = [i \in TaskIds |-> None]
    /\ cancelResp = NoAnswer
    /\ ledger = "v1"
    /\ ledger0 = "v1"
    /\ config = [double |-> TRUE, proxy |-> FALSE, urls |-> {}]
    /\ replicas = [c \in Colours |-> [k \in Controllers |-> IF c = "v1" THEN 1 ELSE 0]]
    /\ serving = [e \in Endpoints |-> "v1"]
    /\ nginxConf = [f \in NginxFiles |-> "v1"]
    /\ nginxLive = "v1"
    /\ nginxDenied = {}
    /\ fan = NoFan
    /\ led = NoLed
    /\ twin = NoTwin
    /\ wfs = NoWeb
    /\ tlog = NoLog
    /\ yaml = NoYaml

\* the worker goroutine has registered its task and its pipeline has not returned
InPipeline(t) ==
    pc[t] \in {<<7, "begin">>, <<9, "begin">>}

\* the worker's call of processor.Process...() returns, with whatever result
ProcessorReturns(t) ==
    /\ InPipeline(t)
    /\ pc' = [pc EXCEPT ![t] = Returned]
    /\ UNCHANGED <<pending, taskCtxMap, cancelResp, ttype, taskID, cancelled, err, log, loc,
                   sideVars>>
    /\ UNCHANGED envVars

RegNext ==
    \/ \E t \in Tasks : HandleCallback(t)
    \/ \E t \in Tasks : CreateTaskContext(t)
    \/ \E id \in TaskIds : HandleCancel(id)
    \/ \E t \in Tasks : ProcessorReturns(t)
    \/ \E t \in Tasks : CleanupTask(t)

RegSpec == RegInit /\ [][RegNext]_vars

(* ------------------- task logger (side specification) ----------------- *)
Writers == {"w1", "w2"}

\* the Write calls WriteCommand makes on the file, in order: the command
\* line, the output and a newline when there is output, the error footer
\* when the command failed
WriteCommandParts(hasOutput, failed) ==
    <<"command">> \o (IF hasOutput THEN <<"output", "newline">> ELSE << >>)
                  \o (IF failed THEN <<"error">> ELSE << >>)

\* one call of the logger by an executor: WriteStep writes its line with one
\* Write call, WriteCommand makes several
LogCalls ==
    {[op |-> "WriteStep", parts |-> <<"line">>]}
    \cup {[op |-> "WriteCommand", parts |-> WriteCommandParts(o, f)] : o, f \in BOOLEAN}

\* two executors of one task call the logger for the same step file
LogInit ==
    /\ PipelinesAtRest
    /\ fan = NoFan
    /\ led = NoLed
    /\ twin = NoTwin
    /\ wfs = NoWeb
    /\ yaml = NoYaml
    /\ \E calls \in [Writers -> LogCalls] :
         tlog = [file |-> << >>,
                 opened |-> FALSE,
                 call |-> [w \in Writers |->
                            [op |-> calls[w].op, parts |-> calls[w].parts,
                             pc |-> "getWriter", next |-> 1]]]

\* goroutines that hold t.mu for reading
ReadLocked ==
    {w \in Writers : tlog.call[w].pc = "write"}

\* getWriter: under t.mu.Lock() the file of the step type is looked up in
\* writers and opened on the first call
getWriter(w) ==
    /\ tlog # NoLog
    /\ tlog.call[w].pc = "getWriter"
    /\ ReadLocked = {}
    /\ tlog' = [tlog EXCEPT !.opened = TRUE, !.call[w].pc = "rlock"]
    /\ UNCHANGED <<pipelineVars, fan, led, twin, wfs, yaml>>

\* t.mu.RLock(): a read lock, which any number of goroutines hold at once
RLock(w) ==
    /\ tlog # NoLog
    /\ tlog.call[w].pc = "rlock"
    /\ tlog' = [tlog EXCEPT !.call[w].pc = "write"]
    /\ UNCHANGED <<pipelineVars, fan, led, twin, wfs, yaml>>

\* one writer.WriteString / writer.Write: the file appends the bytes of the
\* call in one piece; after the last one the deferred RUnlock runs
WriteString(w) ==
    /\ tlog # NoLog
    /\ tlog.call[w].pc = "write"
    /\ LET c == tlog.call[w]
       IN  tlog' = [tlog EXCEPT
                      !.file = Append(@, <<w, c.parts[c.next]>>),
                      !.call[w].next = @ + 1,
                      !.call[w].pc = IF c.next = Len(c.parts) THEN "done" ELSE "write"]
    /\ UNCHANGED <<pipelineVars, fan, led, twin, wfs, yaml>>

LogNext ==
    \/ \E w \in Writers : getWriter(w)
    \/ \E w \in Writers : RLock(w)
    \/ \E w \in Writers : WriteString(w)

LogSpec == LogInit /\ [][LogNext]_vars

(* ------------------ manifest rewrite (side specification) -------------- *)
\* passes of the rewrite over one directory
MaxPasses == 2
\* lines of a manifest file
MaxLines == 2

YamlFiles == {"a.yaml", "b.yaml"}
Tags == {"r1", "r2"}

\* a line of a manifest: an image line of the project's repository on the
\* offline registry with its tag, an image line of another repository, or
\* any other line
ManifestLines ==
    {[repo |-> r, tag |-> g] : r \in {"project", "other"}, g \in Tags}
    \cup {[repo |-> "none", tag |-> None]}

\* a manifest file: its lines, and whether the last one ends with a newline
Manifests ==
    [lines : UNION {[1..n -> ManifestLines] : n \in 0..MaxLines}, newline : BOOLEAN]

\* imagePattern.FindStringSubmatch(line) # nil: the pattern fixes the
\* registry and the project and accepts any tag
imagePattern(line) ==
    line.repo = "project"

\* updateYamlFile, its flag updated: set by every matching line
updated(file) ==
    \E i \in DOMAIN file.lines : imagePattern(file.lines[i])

\* the lines in which one pass puts newTag
Substituted(file) ==
    {i \in DOMAIN file.lines : imagePattern(file.lines[i])}

\* updateYamlFile, the file after the call: a matching line gets newTag, and
\* when updated the lines are written back joined by newlines, with none
\* after the last
updateYamlFile(file, newTag) ==
    IF ~updated(file) THEN file
    ELSE [lines |-> [i \in DOMAIN file.lines |->
                        IF imagePattern(file.lines[i])
                        THEN [file.lines[i] EXCEPT !.tag = newTag]
                        ELSE file.lines[i]],
          newline |-> FALSE]

YamlInit ==
    /\ PipelinesAtRest
    /\ fan = NoFan
    /\ led = NoLed
    /\ twin = NoTwin
    /\ wfs = NoWeb
    /\ tlog = NoLog
    /\ \E dir \in [YamlFiles -> Manifests], newTag \in Tags :
         yaml = [pass |-> 0, dir |-> dir, newTag |-> newTag, passes |-> << >>]

\* DeployServicesWithCategory, the rewrite of every YAML file of the
\* directory with the same new tag; a file is written back when updated
RewriteManifests ==
    /\ yaml # NoYaml
    /\ yaml.pass < MaxPasses
    /\ yaml' = [yaml EXCEPT
                  !.pass = @ + 1,
                  !.dir = [f \in YamlFiles |-> updateYamlFile(yaml.dir[f], yaml.newTag)],
                  !.passes = Append(@,
                      [substitutions |-> [f \in YamlFiles |-> Substituted(yaml.dir[f])],
                       rewritten |-> {f \in YamlFiles : updated(yaml.dir[f])},
                       before |-> yaml.dir])]
    /\ UNCHANGED <<pipelineVars, fan, led, twin, wfs, tlog>>

YamlNext ==
    RewriteManifests

YamlSpec == YamlInit /\ [][YamlNext]_vars

(* ------------------------ reading the task's log ----------------------- *)
Has(t, ev) ==
    \E i \in DOMAIN log[t] : log[t][i] = ev

\* event a occurs in the log before position j
Earlier(t, evs, j) ==
    \E i \in DOMAIN log[t] : i < j /\ log[t][i] \in evs

Finished(t) ==
    pc[t] \in {Returned, Done}

\* a double pipeline run on a project configured blue/green
DoubleRollout(t) ==
    ttype[t] = "double" /\ HasVersionStructure

\* the live colour the ledger recorded when the task was accepted
PreviousColour ==
    GetVersion(ledger0)

FirstStep(t) ==
    IF ttype[t] = "web" THEN 7 ELSE 9

CancelledInStep(t) ==
    \E i \in DOMAIN log[t] :
        /\ log[t][i][1] = "cancel"
        /\ log[t][i][3] \in {"begin", "exec", "sleep", "phaseA", "phaseB", "scale", "wait"}
        /\ \A j \in DOMAIN log[t] : j < i => log[t][j][1] # "task"

\* C2: a single or double task whose cancel signal fired before or during a
\* step's executor ends with a task notification "cancel" and a cancel chat card.
C2_CancelPropagated ==
    \A t \in Tasks :
        (ttype[t] \in {"single", "double"} /\ Finished(t) /\ CancelledInStep(t))
            => (Has(t, EvTask("cancel")) /\ Has(t, EvCard("cancel")))

(* ------------------------------ C3 ------------------------------------- *)
\* C3: when a double rollout has sent its task notification "complete", the
\* ledger's live colour is the colour whose deployment path deployService
\* applied and whose namespace checkService probed.
C3_LedgerMatchesTarget ==
    \A t \in Tasks :
        (DoubleRollout(t) /\ Has(t, EvTask("complete")))
            => /\ ledger = ColourOf(loc[t].deployDir)
               /\ ledger = ColourOf(loc[t].namespace)

(* ------------------------------ C4 ------------------------------------- *)
\* the step whose failure ended the task
FailedStep(t, n) ==
    Has(t, EvStep(n, "failed")) /\ Has(t, EvTask("failed"))

SwitchSucceeded == {EvDo(15, "switched"), EvDo(15, "noEndpoint")}
UpdateReturned == {EvDo(15, "ledger"), EvDo(15, "ledgerFailed")}

C6_FailedSwitchKeepsPrevious ==
    \A t \in Tasks :
        (DoubleRollout(t) /\ Has(t, EvDo(15, "switchFailed"))
                          /\ pc[t] \in {<<15, "ret">>, Returned, Done})
            => /\ Has(t, EvStep(15, "failed"))
               /\ GetVersion(ledger) = PreviousColour
               /\ \A e \in config.urls : serving[e] = PreviousColour
               /\ nginxLive = PreviousColour

(* ------------------------------ C7 ------------------------------------- *)
\* C7: on a blue/green project the deployment path resolved for the next
\* rollout is the colour opposite to the one .current recorded (v1 gives v2,
\* v2 gives v1), and v1 when there was no .current file.
C7_NextPathOpposite ==
    \A t \in Tasks :
        (HasVersionStructure /\ loc[t].deployDir # None)
            => /\ loc[t].deployDir = GetDeploymentPath(ledger0)
               /\ loc[t].deployDir = getDeploymentPath(ledger0, "next")
               /\ ColourOf(loc[t].deployDir) =
                     IF ledger0 = "absent" THEN "v1" ELSE Opposite(ledger0)

(* ------------------------------ C8 ------------------------------------- *)
\* the readiness prober of task t has run and returned
ProberReturned(t) ==
    /\ Has(t, EvExec(14))
    /\ pc[t] \notin {<<14, "sleep">>, <<14, "phaseA">>, <<14, "phaseB">>, <<14, "scale">>}

\* C8: in a finished run of the readiness prober, scale-to-zero was executed
\* exactly when Phase A saw a pod in a non-normal phase or Phase A or Phase B
\* timed out.
C8_ScaleDownIffAbnormalOrTimeout ==
    \A t \in Tasks :
        ProberReturned(t) =>
            (Has(t, EvDo(14, "scaleDown"))
                <=> \/ Has(t, EvDo(14, "abnormal"))
                    \/ Has(t, EvDo(14, "timeoutA"))
                    \/ Has(t, EvDo(14, "timeoutB")))

(* ------------------------------ C9 ------------------------------------- *)
ScaledToZero(colour) ==
    \A k \in Controllers : replicas[colour][k] = 0

NeverSwitchedNorCleaned(t) ==
    /\ ~Has(t, EvExec(15))
    /\ ~Has(t, EvExec(16))
    /\ ~Has(t, EvStep(15, "start"))
    /\ ~Has(t, EvStep(16, "start"))

\* the cancel signal did not fire before the pipeline had handled the failure
NoCancelBeforeHandled(t) ==
    \A i \in DOMAIN log[t] : log[t][i][1] = "cancel" => log[t][i][3] = "returned"

C10_StepsInOrder ==
    \A t \in Tasks : \A i \in DOMAIN log[t] :
        log[t][i][1] = "exec" =>
            /\ \A m \in FirstStep(t)..(log[t][i][2] - 1) :
                  Earlier(t, {EvStep(m, "success")}, i)
            /\ \A j \in DOMAIN log[t] :
                  (j < i /\ log[t][j][1] = "step") => log[t][j][3] \in {"start", "success"}
            /\ \A j \in DOMAIN log[t] :
                  (j < i /\ log[t][j][1] = "exec") => log[t][j][2] < log[t][i][2]

C10_Witness ==
    \E t \in Tasks :
        /\ Finished(t)
        /\ Has(t, EvExec(12))
        /\ Has(t, EvStep(12, "failed"))
        /\ ~Has(t, EvExec(13))
        /\ loc[t].deployDir = None
(* ------------------------------ C11 ------------------------------------ *)
StepNumbers == 7..16
TerminalStatus == {"success", "failed", "cancel"}

\* positions of the terminal step notifications of step n in t's log
TerminalNotifications(t, n) ==
    {i \in DOMAIN log[t] : log[t][i][1] = "step" /\ log[t][i][2] = n
                              /\ log[t][i][3] \in TerminalStatus}

\* the executor of step n starts only after the step's start notification
StartBeforeExecutor(t, n) ==
    \A i \in DOMAIN log[t] :
        log[t][i] = EvExec(n) => Earlier(t, {EvStep(n, "start")}, i)

\* a started step gets at most one terminal step notification, after its
\* executor, and exactly one once the pipeline has returned
OneTerminalNotification(t, n) ==
    /\ Cardinality(TerminalNotifications(t, n)) <= 1
    /\ \A i \in TerminalNotifications(t, n) :
          /\ Earlier(t, {EvStep(n, "start")}, i)
          /\ \A j \in DOMAIN log[t] : log[t][j] = EvExec(n) => j < i
    /\ (Has(t, EvStep(n, "start")) /\ Finished(t))
          => Cardinality(TerminalNotifications(t, n)) = 1

\* the task notification "failed" and the failed card follow the step's failed
\* notification, and no task notification precedes it
TaskTerminalAfterFailed(t, n) ==
    \A i \in DOMAIN log[t] :
        (log[t][i] = EvStep(n, "failed") /\ Finished(t))
            => /\ \E j \in DOMAIN log[t] : j > i /\ log[t][j] = EvTask("failed")
               /\ \E j \in DOMAIN log[t] : j > i /\ log[t][j] = EvCard("failed")
               /\ ~Earlier(t, {EvTask("failed"), EvTask("cancel"), EvTask("complete")}, i)

\* C11: for every step of every pipeline the start notification precedes the
\* executor, exactly one terminal step notification follows it, and a failed
\* step is followed by the task-terminal notifications.
C11_StepNotificationProtocol ==
    \A t \in Tasks : \A n \in StepNumbers :
        /\ StartBeforeExecutor(t, n)
        /\ OneTerminalNotification(t, n)
        /\ TaskTerminalAfterFailed(t, n)
(* ------------------------------ C12 ------------------------------------ *)
\* positions in t's log at which the cancel signal fired while some web step's
\* executor had not been invoked yet
CancelBeforeWebExecutor(t) ==
    {i \in DOMAIN log[t] : log[t][i][1] = "cancel" /\ ~Earlier(t, {EvExec(10)}, i)}

\* C12: in the web pipeline no executor is invoked after the cancel signal has
\* fired, and the task then ends with the task notification "cancel" and never
\* with "complete".
C12_WebCancelStopsPipeline ==
    \A t \in Tasks : ttype[t] = "web" =>
        \A i \in CancelBeforeWebExecutor(t) :
            /\ \A j \in DOMAIN log[t] : j > i => log[t][j][1] # "exec"
            /\ ~Has(t, EvTask("complete"))
            /\ Finished(t) => Has(t, EvTask("cancel"))
(* ------------------------------ C13 ------------------------------------ *)
\* number of times the cancel signal of task t was fired through the registry
CancelCount(t) ==
    Cardinality({i \in DOMAIN log[t] : log[t][i][1] = "cancel"})

\* the step is a call of /api/task/cancel for id answered with code
CancelAnswered(id, code) ==
    /\ cancelResp' = <<id, code>>
    /\ cancelResp' # cancelResp \/ \E t \in Tasks : CancelCount(t)' # CancelCount(t)

\* C13: /api/task/cancel answers 200 only when the registry holds an entry for
\* the id at the call, and then fires that entry's signal and removes the
\* entry, leaving the other entries alone; it answers 404 only when there is no
\* entry, and then changes neither the registry nor any signal; so the signal
\* of a registered task is fired through the registry at most once.
C13_CancelExactlyWhenRegistered ==
    [][ \A id \in TaskIds :
          /\ CancelAnswered(id, 200) =>
                /\ taskCtxMap[id] # None
                /\ cancelled'[taskCtxMap[id]]
                /\ taskCtxMap' = [taskCtxMap EXCEPT ![id] = None]
          /\ CancelAnswered(id, 404) =>
                /\ taskCtxMap[id] = None
                /\ UNCHANGED <<taskCtxMap, cancelled>>
          /\ \A t \in Tasks : CancelCount(t)' <= 1 ]_vars

\* a second cancel of an id whose task is still running is answered 404
C13_Witness ==
    \E t \in Tasks :
        /\ cancelled[t]
        /\ ~Finished(t)
        /\ pc[t] # Ignored
        /\ CancelCount(t) = 1
        /\ cancelResp = <<taskID[t], 404>>
(* ------------------------------ C14 ------------------------------------ *)
\* the pipeline of the project's configured kind
ConfiguredKind ==
    IF config.double THEN "double" ELSE "single"

\* C14: an accepted callback with an empty type runs the pipeline of the
\* project's configured kind: the double pipeline on a blue/green project (so
\* a completed task has run checkService, trafficSwitching and
\* cleanupOldVersion), the single pipeline otherwise.
C14_EmptyTypeAutoClassified ==
    \A t \in Tasks :
        (ttype[t] = "" /\ pc[t] \notin {Idle, Ignored})
            => /\ Dispatch(ttype[t]) = ConfiguredKind
               /\ (config.double /\ Has(t, EvTask("complete")))
                     => Has(t, EvStep(16, "success"))
               /\ (~config.double) => ~Has(t, EvStep(14, "start"))
(* ------------------------------ C15 ------------------------------------ *)
Min(a, b) ==
    IF a <= b THEN a ELSE b

\* C15: while pullOnline, tagImages, pushLocal or checkImage runs over n items,
\* the number of workers executing their external call is at most min(n, 20).
C15_FanOutBounded ==
    fan.kind \in FanKinds => fan.running <= Min(fan.n, maxConcurrency)

(* ------------------------------ C16 ------------------------------------ *)
\* at least one worker failed: it sent an error, or (checkImage) reported its
\* artifact missing
SomeWorkerFailed ==
    fan.errs # {} \/ fan.missing

FanReturned ==
    fan.kind \in FanKinds /\ fan.ret # "running"

C17_PullSuccessMeansAllPulled ==
    (fan.kind = "pullOnline" /\ fan.ret = "nil") => fan.ok = fan.n

(* ------------------------------ C18 ------------------------------------ *)
\* C18: checkImage returns success exactly when every deduplicated service
\* answered 200, and when some service answered another status it fails with
\* the error that lists the missing services.
C18_CheckSuccessIffAll200 ==
    (fan.kind = "checkImage" /\ fan.ret # "running") =>
        /\ fan.ret = "nil" <=> fan.ok = fan.n
        /\ fan.missing => fan.ret = "missing"

(* ------------------------------ C19 ------------------------------------ *)
\* the success notification of g's step was answered 200 and the call returned
RoundTripCompleted(g) ==
    /\ led.call[g].op = "step"
    /\ led.call[g].sent
    /\ led.call[g].pc = "done"

DurationRecorded(g) ==
    led.call[g].key \in led.file[led.call[g].project].durations

\* C19: for every step whose success notification completed its round-trip,
\* a duration record under the step's key step_<N>_<stepType> exists in the
\* project's version ledger.
C19_DurationRecorded ==
    \A g \in Callers : RoundTripCompleted(g) => DurationRecorded(g)

(* ------------------------------ C20 ------------------------------------ *)
\* g's read-modify-write of .current has completed (saveVersionFile returned)
UpdateCompleted(g) ==
    led.call[g].saved

\* the record still carries what g's completed update put there
UpdateKept(g) ==
    LET c == led.call[g]
    IN  IF c.op = "step" THEN c.key \in led.file[c.project].durations
        ELSE (\A h \in Callers \ {g} :
                 ~(led.call[h].op = "version" /\ led.call[h].project = c.project))
             => led.file[c.project].version = c.newVersion

\* C20: concurrent ledger updates for the same project (setLiveColour and
\* recordDuration of different tasks or steps) are serialised: no completed
\* update is lost or overwritten by a stale copy of the record.
C20_NoLostUpdate ==
    \A g \in Callers : UpdateCompleted(g) => UpdateKept(g)

(* ------------------------------ C21 ------------------------------------ *)
\* C21: the step-timing map is never accessed by two goroutines at the same
\* time: the reads, inserts and deletes of concurrently running tasks are
\* serialised.
C21_MapAccessSerialised ==
    Cardinality(led.accessing) <= 1

(* ------------------------------ C22 ------------------------------------ *)
\* what a pipeline copy did: its position, the notifications it attempted
\* and the executors it ran (in order), and what it returned
FlowOf(k) ==
    <<twin.copy[k].pc, twin.copy[k].attempted, twin.copy[k].ret>>

\* C22: a failed notification (step or task level, transport error or
\* non-200 answer) never changes the pipeline's control flow: the task runs
\* the same steps and reaches the same terminal state as with every
\* notification succeeding.
C22_NotifyFailureKeepsFlow ==
    FlowOf("run") = FlowOf("ref")

\* the pipeline has returned after step and task notifications of it failed
C22_Witness ==
    /\ twin.copy["run"].pc = Returned
    /\ twin.copy["run"].ret = "nil"
    /\ twin.copy["run"].failures > 2
    /\ twin.copy["ref"].failures = 0

(* ------------------------------ C23 ------------------------------------ *)
\* the proxy switcher of task t's step 15 has returned
ProxySwitchReturned(t) ==
    /\ config.proxy
    /\ Has(t, EvExec(15))
    /\ pc[t] # <<15, "exec">>

\* C23: in proxy mode trafficSwitching calls every configured proxy endpoint
\* (none is skipped because another one failed), fails the step if any
\* endpoint answers with a non-200 response, and returns success only when
\* every endpoint answered 200.
C23_ProxySwitchAllOrFail ==
    \A t \in Tasks : ProxySwitchReturned(t) =>
        /\ \A e \in config.urls : loc[t].answers[e] # 0
        /\ (\E e \in config.urls : loc[t].answers[e] # 200)
              => /\ Has(t, EvDo(15, "switchFailed"))
                 /\ ~Has(t, EvStep(15, "success"))
                 /\ pc[t] \notin {<<15, "post">>, <<15, "exec">>} => Has(t, EvStep(15, "failed"))
        /\ (Has(t, EvDo(15, "switched")) \/ Has(t, EvStep(15, "success")))
              => \A e \in config.urls : loc[t].answers[e] = 200

\* one endpoint answered 200 and was switched while the other answered 500,
\* and the step has been reported failed
C23_Witness ==
    \E t \in Tasks :
        /\ ProxySwitchReturned(t)
        /\ config.urls = Endpoints
        /\ loc[t].answers["e1"] = 500
        /\ loc[t].answers["e2"] = 200
        /\ serving["e2"] = loc[t].version
        /\ Has(t, EvStep(15, "failed"))

(* ------------------------------ C24 ------------------------------------ *)
\* the nginx switcher of task t's step 15 has just returned: the files are
\* as the rewrite left them
NginxSwitchReturned(t) ==
    /\ ~config.proxy
    /\ pc[t] = <<15, "post">>

\* some .conf file does not hold the new target after the rewrite
SomeFileLacksTarget(t) ==
    \E f \in NginxFiles : nginxConf[f] # loc[t].version

\* C24: in nginx mode, if after the rewrite any .conf file does not contain
\* the new target, the step fails and no nginx reload is dispatched; a reload
\* is dispatched only after every file has passed verification.
C24_NoReloadUnlessAllVerified ==
    \A t \in Tasks : (NginxSwitchReturned(t) /\ SomeFileLacksTarget(t)) =>
        /\ err[t] # "nil"
        /\ ~Has(t, EvDo(15, "reload"))

(* ------------------------------ C25 ------------------------------------ *)
WebHas(ev) ==
    \E i \in DOMAIN wfs.sent : wfs.sent[i] = ev

\* deployNew of the web rollout has failed
DeployNewFailed ==
    WebHas(EvStep(10, "failed"))

WebReturned ==
    wfs.pc = "returned"

\* C25: if deployNew fails in a web rollout, the orchestrator attempts to
\* restore the *_backup directory by renaming it back to the web path; a
\* failure of that rollback is only logged and not re-raised, and the task
\* still ends failed with its failure notifications emitted.
C25_RollbackFailureNotRaised ==
    (DeployNewFailed /\ WebReturned) =>
        /\ wfs.rollback \in {"restored", "failed"}
        /\ wfs.rollback = "restored" => (wfs.web \in {"old", "stale"} /\ wfs.backup = "absent")
        /\ wfs.ret = "err"
        /\ WebHas(EvTask("failed"))
        /\ WebHas(EvCard("failed"))

\* the rollback failed with a backup on disk and the task has ended failed
C25_Witness ==
    /\ DeployNewFailed
    /\ WebReturned
    /\ wfs.rollback = "failed"
    /\ wfs.backup = "old"
    /\ WebHas(EvTask("failed"))

(* ------------------------------ C26 ------------------------------------ *)
\* downProduct, extractProduct and backupCurrent succeeded, deployNew failed
\* and the orchestrator has returned
DeployFailedAfterBackup ==
    /\ WebReturned
    /\ WebHas(EvStep(7, "success"))
    /\ WebHas(EvStep(8, "success"))
    /\ WebHas(EvStep(9, "success"))
    /\ DeployNewFailed

\* C26: in a web rollout where downProduct, extractProduct and backupCurrent
\* succeed and deployNew fails, the backup directory is renamed back to the
\* web path, a task notification with status failed is emitted, and the
\* temporary files (downloaded zip and extract directory) are cleaned.
C26_FailedDeployRestoresAndCleans ==
    DeployFailedAfterBackup =>
        /\ wfs.rollback = "restored"
        /\ wfs.backup = "absent"
        /\ WebHas(EvTask("failed"))
        /\ ~wfs.zip
        /\ ~wfs.extractDir

(* ------------------------------ C27 ------------------------------------ *)
\* step 16 of task t has resolved the namespace it is going to scale to zero
CleanupResolved(t) ==
    /\ DoubleRollout(t)
    /\ Has(t, EvExec(16))

\* C27: in a double rollout the namespace that cleanupOldVersion scales to
\* zero is always the previously live colour and never the colour that
\* trafficSwitching has just switched traffic to, also when the ledger update
\* that follows the switch (UpdateVersion) fails.
C27_CleanupTargetsPreviousColour ==
    \A t \in Tasks : CleanupResolved(t) =>
        /\ VersionOfNamespace(loc[t].oldNamespace) = PreviousColour
        /\ VersionOfNamespace(loc[t].oldNamespace) # loc[t].version

\* C28: within one double rollout the colour resolved as next is the same at
\* deployService, checkService and trafficSwitching, whatever another task of
\* the same project does to the ledger in between
ResolvedAt(g, s) ==
    /\ led # NoLed
    /\ led.call[g].op = "rollout"
    /\ led.call[g].next[s] # None

C28_NextColourStable ==
    \A g \in Callers : \A s1, s2 \in ResolvingSteps :
        (ResolvedAt(g, s1) /\ ResolvedAt(g, s2))
            => led.call[g].next[s1] = led.call[g].next[s2]

\* C29: every rollout task (single or double) whose pipeline has started and
\* ended has sent exactly one task-level terminal notification (complete,
\* failed or cancel): never none and never two
TaskTerminals(t) ==
    {i \in DOMAIN log[t] :
        log[t][i] \in {EvTask("complete"), EvTask("failed"), EvTask("cancel")}}

RolloutEnded(t) ==
    /\ Finished(t)
    /\ ttype[t] # "web"
    /\ Has(t, EvStep(9, "start"))

C29_ExactlyOneTaskTerminal ==
    \A t \in Tasks : RolloutEnded(t) => Cardinality(TaskTerminals(t)) = 1

\* C30: when the cancellation signal fired while the fan-out executor still
\* had items that had not been processed, the executor does not return success
CancelledWithItemsLeft ==
    /\ fan.ctxDone
    /\ fan.unprocessed > 0
    /\ fan.ret \notin {None, "running"}

C30_CancelledFanOutNotSuccess ==
    CancelledWithItemsLeft => fan.ret # "nil"

\* C31: the ledger's live colour is advanced to the new colour only after at
\* least one traffic-switch action has succeeded (a proxy endpoint answered
\* 200, or an nginx file was rewritten to the new colour); in proxy mode with
\* no endpoint configured the ledger is not advanced
LedgerAdvancedBy(t) ==
    /\ DoubleRollout(t)
    /\ Has(t, EvDo(15, "ledger"))

SwitchActionSucceeded(t) ==
    IF config.proxy
    THEN \E e \in config.urls : loc[t].answers[e] = 200
    ELSE \E f \in NginxFiles : nginxConf[f] = loc[t].version

C31_LedgerAdvancedOnlyAfterSwitch ==
    \A t \in Tasks :
        /\ LedgerAdvancedBy(t) => SwitchActionSucceeded(t)
        /\ (config.proxy /\ config.urls = {}) => ~LedgerAdvancedBy(t)

\* C32: when two tasks run the same step concurrently, the start time kept
\* for a task between its start and its terminal notification is that task's
\* own (the other task's terminal event neither removes nor reuses it), and
\* the duration its terminal notification carries is measured from its own start
StepOpen(g) ==
    /\ led # NoLed
    /\ led.call[g].op = "step"
    /\ led.call[g].pc \in {"exec", "success"}

StepClosed(g) ==
    /\ led # NoLed
    /\ led.call[g].op = "step"
    /\ led.call[g].finishedAt # NoTime

C32_DurationFromOwnStart ==
    \A g \in Callers :
        /\ StepOpen(g) => led.stepStartTimes[led.call[g].key] = led.call[g].startedAt
        /\ StepClosed(g) =>
               led.call[g].Duration = led.call[g].finishedAt - led.call[g].startedAt

\* C33: when two tasks are registered under the same task id, the end-of-task
\* cleanup of one of them does not remove the cancel handle of the other: a
\* task that is still running stays cancellable through the registry
HoldsHandle(u) ==
    /\ InPipeline(u)
    /\ taskCtxMap[taskID[u]] = u

C33_CleanupKeepsOthersHandle ==
    [][\A t, u \in Tasks :
          (u # t /\ pc[t] = Returned /\ pc'[t] = Done /\ HoldsHandle(u))
              => taskCtxMap'[taskID[u]] = u]_vars

\* C34: once /callback has answered 200 for an accepted rollout with task id
\* X, a cancel request for X is not answered 404 while X's pipeline has not
\* finished, the window before the worker has registered X included
AcceptedUnfinished(id) ==
    \E t \in Tasks :
        /\ taskID[t] = id
        /\ pc[t] = Spawned \/ InPipeline(t)

C34_NoCancel404WhileRunning ==
    [][\A id \in TaskIds :
          (cancelResp' # cancelResp /\ cancelResp' = <<id, 404>>)
              => ~AcceptedUnfinished(id)]_vars

\* C35: in the web pipeline, when the artifact download fails (transport
\* error or a response other than 200) downProduct returns failure, a failed
\* step notification and a failed task notification are sent, and
\* extractProduct, backupCurrent and deployNew are not invoked
DownloadFailed ==
    /\ wfs # NoWeb
    /\ wfs.download \in {"transport", "non200"}

PhaseAPasses(t) ==
    /\ pc[t] = <<14, "phaseA">>
    /\ pc'[t] = <<14, "phaseB">>

LastPollNotAllRunning(t) ==
    /\ pc[t] = <<14, "phaseA">>
    /\ loc[t].lastPolls # << >>
    /\ ~loc[t].lastPolls[Len(loc[t].lastPolls)]

C36_PhaseATwoConsecutiveRunning ==
    [][\A t \in Tasks :
          /\ PhaseAPasses(t) => loc'[t].lastPolls = <<TRUE, TRUE>>
          /\ LastPollNotAllRunning(t) => loc[t].consecutiveSuccess = 0]_vars

\* Phase A has just passed, its last two polls having found every pod Running
C36_Witness ==
    \E t \in Tasks :
        /\ pc[t] = <<14, "phaseB">>
        /\ loc[t].lastPolls = <<TRUE, TRUE>>
        /\ loc[t].polls = 0

\* C37: when cleanupOldVersion finds the target deployment directory and
\* returns success, every Deployment of the old namespace has been scaled to
\* 0 replicas and the old namespace was observed to hold no pod within the
\* polling window
CleanupSucceededOnFoundDir(t) ==
    /\ DoubleRollout(t)
    /\ Has(t, EvExec(16))
    /\ Has(t, EvStep(16, "success"))
    /\ ~Has(t, EvDo(16, "dirMissing"))

C37_CleanupSuccessMeansDrained ==
    \A t \in Tasks : CleanupSucceededOnFoundDir(t) =>
        /\ Has(t, EvDo(16, loc[t].oldNamespace))
        /\ replicas[ColourOf(loc[t].oldNamespace)]["Deployment"] = 0
        /\ Has(t, EvDo(16, "none"))

\* C38: when the cancellation signal fires while cleanupOldVersion is in its
\* 55 s sleep or in its drain-polling loop, the executor stops waiting and
\* returns the cancellation, and performs no further scale or poll action
CleanupWaits == {<<16, "sleep">>, <<16, "wait">>, <<16, "poll">>}

CancelledInCleanupWait(t, i) ==
    /\ i \in DOMAIN log[t]
    /\ \E p \in CleanupWaits : log[t][i] = EvCancel(p)

CleanupReturned(t) ==
    pc[t] = <<16, "post">>

C38_CancelAbortsCleanupWait ==
    \A t \in Tasks : \A i \in DOMAIN log[t] :
        CancelledInCleanupWait(t, i) =>
            /\ \A j \in DOMAIN log[t] : j > i => log[t][j][1] # "do"
            /\ CleanupReturned(t) => err[t] = "ctx"

\* C39: writes to the same step log file by parallel executors of one task
\* are serialised: the line of a WriteStep and the block of a WriteCommand
\* (command line, output, error footer) are contiguous in the file, never
\* interleaved with another writer's bytes
WrittenBy(w) ==
    {i \in DOMAIN tlog.file : tlog.file[i][1] = w}

C39_LogWritesContiguous ==
    \A w \in Writers : \A i, j \in WrittenBy(w) :
        \A k \in i..j : k \in WrittenBy(w)

\* C40: running the manifest rewrite twice on the same directory with the
\* same new tag performs no tag substitution, and so no file rewrite, on the
\* second pass
SecondPassDone ==
    /\ yaml # NoYaml
    /\ yaml.pass >= 2

C40_SecondPassNoSubstitution ==
    SecondPassDone =>
        /\ \A f \in YamlFiles : yaml.passes[2].substitutions[f] = {}
        /\ yaml.passes[2].rewritten = {}

=============================================================================
